---- MODULE Spec2Model ----
(***************************************************************************)
(* A model of global-hotkey: the HotKey identity and its string parser     *)
(* (src/src/hotkey.rs), the process-wide event sink (src/src/lib.rs), the   *)
(* public manager (src/src/lib.rs) and the X11 backend with its worker      *)
(* thread (src/src/platform_impl/x11/mod.rs).                               *)
(*                                                                         *)
(* A Rust string is a sequence of one-character strings, so that split,    *)
(* trim and to_uppercase are computed instead of assumed.  A Modifiers      *)
(* value is the set of the flags it holds.  An X11 modifier mask is an      *)
(* integer, combined bit by bit.                                            *)
(***************************************************************************)
EXTENDS Integers, Sequences, FiniteSets, TLC

VARIABLES
    target_os,      \* the cfg(target_os) the crate was built for
    counter,        \* COUNTER: the next id it hands out
    input,          \* the string last given to parse_hotkey
    rendered,       \* the modifiers and the key keyword that string was rendered from, if it was
    parsed,         \* what parse_hotkey returned (or that it panicked)
    built,          \* the HotKey values the client constructed and kept
    handler,        \* GLOBAL_HOTKEY_EVENT_HANDLER: "unset", "none" or "some"
    channel,        \* GLOBAL_HOTKEY_CHANNEL: the events enqueued, oldest first
    handled,        \* the events the installed handler was called with
    hotkeys,        \* x11 worker: (mods, keycode) -> (id, repeating)
    wpc,            \* x11 worker: where the thread stands
    wsend,          \* x11 worker: the reply a blocked tx.send still holds
    grabs,          \* X server: the (mask, keycode) grabs of this connection
    foreign,        \* X server: the (mask, keycode) grabs of other clients
    xqueue,         \* X server: events pending on this connection
    keyDown,        \* the keyboard: the key now held down, if any
    thread_rx,      \* the request channel: ThreadMessages not yet received
    reply,          \* per calling thread: its bounded(1) reply channel
    call,           \* per calling thread: the public call it is inside
    phase,          \* history: how far each combination is in register, duplicate, unregister, register
    run,            \* history: per combination, the events sent in the current run of presses
    dropped,        \* whether the manager handle was dropped
    npress,         \* native key presses generated so far
    newret,         \* x11: what GlobalHotKeyManager::new returned, once it was called
    issued,         \* history: the ids COUNTER has handed out
    sinklog,        \* history: the last call on the event sink and the calls before it
    query,          \* the last call of HotKey::matches and what it returned
    macos,          \* the macOS manager and the hot keys Carbon holds
    windows         \* the Windows manager and the hot keys of its window

parseVars == <<target_os, counter, input, rendered, parsed, built, issued>>
sinkVars  == <<handler, channel, handled>>
x11Vars   == <<hotkeys, wpc, wsend, grabs, foreign, xqueue, keyDown,
               thread_rx, reply, call, phase, run, dropped, npress>>
restVars  == <<newret, sinklog, query, macos, windows>>
vars      == <<parseVars, sinkVars, x11Vars, restVars>>

None == "None"

(***************************************************************************)
(* Bounds of the model.                                                    *)
(***************************************************************************)
MaxTokens  == 3     \* tokens of a string assembled from Words
MaxIds     == 3     \* ids the counter hands out before the model stops building
MaxBuilt   == 2     \* HotKey values the client keeps
MaxPresses == 2     \* native key presses (first presses and auto-repeats)
MaxPending == 1     \* events pending on the X connection
MaxBatch   == 2     \* elements of a register_all / unregister_all slice
MaxAlias   == 6     \* the aliases of one modifier a rendering chooses among
MaxSinkCalls == 5   \* calls of set_event_handler and send on the sink used directly
MaxRefs    == 3     \* hot keys Carbon registers for one macOS manager

(***************************************************************************)
(* Strings.                                                                *)
(***************************************************************************)
Lowers == <<"a","b","c","d","e","f","g","h","i","j","k","l","m",
            "n","o","p","q","r","s","t","u","v","w","x","y","z">>
Uppers == <<"A","B","C","D","E","F","G","H","I","J","K","L","M",
            "N","O","P","Q","R","S","T","U","V","W","X","Y","Z">>

LowerIndex == [c \in {Lowers[i] : i \in 1..Len(Lowers)} |->
                  CHOOSE i \in 1..Len(Lowers) : Lowers[i] = c]
UpperIndex == [c \in {Uppers[i] : i \in 1..Len(Uppers)} |->
                  CHOOSE i \in 1..Len(Uppers) : Uppers[i] = c]

\* a to_uppercase that leaves every character as it is: what the parser would be
\* if it compared its keywords case-sensitively
char_as_is(c) == c

\* char::to_uppercase, on the characters the model's strings are made of
char_to_uppercase(c) ==
    IF c \in DOMAIN LowerIndex THEN Uppers[LowerIndex[c]] ELSE c

char_to_lowercase(c) ==
    IF c \in DOMAIN UpperIndex THEN Lowers[UpperIndex[c]] ELSE c

\* str::to_uppercase
to_uppercase(s) == [i \in 1..Len(s) |-> char_to_uppercase(s[i])]

is_whitespace(c) == c \in {" ", "\t", "\n"}

\* str::trim: drop the whitespace at both ends
trim(s) ==
    LET keep == {i \in 1..Len(s) : ~is_whitespace(s[i])}
    IN  IF keep = {} THEN <<>>
        ELSE SubSeq(s, CHOOSE i \in keep : \A j \in keep : i <= j,
                       CHOOSE i \in keep : \A j \in keep : j <= i)

RECURSIVE split_from(_, _, _)
split_from(s, i, piece) ==
    IF i > Len(s) THEN <<piece>>
    ELSE IF s[i] = "+" THEN <<piece>> \o split_from(s, i + 1, <<>>)
    ELSE split_from(s, i + 1, Append(piece, s[i]))

\* hotkey.split('+').collect(): the pieces between the '+', at least one
split(s) == split_from(s, 1, <<>>)

(***************************************************************************)
(* parse_key: the key-name keywords, upper-cased, and the Code of each.    *)
(* The character U+0060 is written "grave" here.                           *)
(***************************************************************************)
parse_key_table ==
    <<"B","A","C","K","Q","U","O","T","E">> :> "Backquote" @@
    <<"grave">> :> "Backquote" @@
    <<"B","A","C","K","S","L","A","S","H">> :> "Backslash" @@
    <<"\\">> :> "Backslash" @@
    <<"B","R","A","C","K","E","T","L","E","F","T">> :> "BracketLeft" @@
    <<"[">> :> "BracketLeft" @@
    <<"B","R","A","C","K","E","T","R","I","G","H","T">> :> "BracketRight" @@
    <<"]">> :> "BracketRight" @@
    <<"C","O","M","M","A">> :> "Comma" @@
    <<",">> :> "Comma" @@
    <<"D","I","G","I","T","0">> :> "Digit0" @@
    <<"0">> :> "Digit0" @@
    <<"D","I","G","I","T","1">> :> "Digit1" @@
    <<"1">> :> "Digit1" @@
    <<"D","I","G","I","T","2">> :> "Digit2" @@
    <<"2">> :> "Digit2" @@
    <<"D","I","G","I","T","3">> :> "Digit3" @@
    <<"3">> :> "Digit3" @@
    <<"D","I","G","I","T","4">> :> "Digit4" @@
    <<"4">> :> "Digit4" @@
    <<"D","I","G","I","T","5">> :> "Digit5" @@
    <<"5">> :> "Digit5" @@
    <<"D","I","G","I","T","6">> :> "Digit6" @@
    <<"6">> :> "Digit6" @@
    <<"D","I","G","I","T","7">> :> "Digit7" @@
    <<"7">> :> "Digit7" @@
    <<"D","I","G","I","T","8">> :> "Digit8" @@
    <<"8">> :> "Digit8" @@
    <<"D","I","G","I","T","9">> :> "Digit9" @@
    <<"9">> :> "Digit9" @@
    <<"E","Q","U","A","L">> :> "Equal" @@
    <<"=">> :> "Equal" @@
    <<"K","E","Y","A">> :> "KeyA" @@
    <<"A">> :> "KeyA" @@
    <<"K","E","Y","B">> :> "KeyB" @@
    <<"B">> :> "KeyB" @@
    <<"K","E","Y","C">> :> "KeyC" @@
    <<"C">> :> "KeyC" @@
    <<"K","E","Y","D">> :> "KeyD" @@
    <<"D">> :> "KeyD" @@
    <<"K","E","Y","E">> :> "KeyE" @@
    <<"E">> :> "KeyE" @@
    <<"K","E","Y","F">> :> "KeyF" @@
    <<"F">> :> "KeyF" @@
    <<"K","E","Y","G">> :> "KeyG" @@
    <<"G">> :> "KeyG" @@
    <<"K","E","Y","H">> :> "KeyH" @@
    <<"H">> :> "KeyH" @@
    <<"K","E","Y","I">> :> "KeyI" @@
    <<"I">> :> "KeyI" @@
    <<"K","E","Y","J">> :> "KeyJ" @@
    <<"J">> :> "KeyJ" @@
    <<"K","E","Y","K">> :> "KeyK" @@
    <<"K">> :> "KeyK" @@
    <<"K","E","Y","L">> :> "KeyL" @@
    <<"L">> :> "KeyL" @@
    <<"K","E","Y","M">> :> "KeyM" @@
    <<"M">> :> "KeyM" @@
    <<"K","E","Y","N">> :> "KeyN" @@
    <<"N">> :> "KeyN" @@
    <<"K","E","Y","O">> :> "KeyO" @@
    <<"O">> :> "KeyO" @@
    <<"K","E","Y","P">> :> "KeyP" @@
    <<"P">> :> "KeyP" @@
    <<"K","E","Y","Q">> :> "KeyQ" @@
    <<"Q">> :> "KeyQ" @@
    <<"K","E","Y","R">> :> "KeyR" @@
    <<"R">> :> "KeyR" @@
    <<"K","E","Y","S">> :> "KeyS" @@
    <<"S">> :> "KeyS" @@
    <<"K","E","Y","T">> :> "KeyT" @@
    <<"T">> :> "KeyT" @@
    <<"K","E","Y","U">> :> "KeyU" @@
    <<"U">> :> "KeyU" @@
    <<"K","E","Y","V">> :> "KeyV" @@
    <<"V">> :> "KeyV" @@
    <<"K","E","Y","W">> :> "KeyW" @@
    <<"W">> :> "KeyW" @@
    <<"K","E","Y","X">> :> "KeyX" @@
    <<"X">> :> "KeyX" @@
    <<"K","E","Y","Y">> :> "KeyY" @@
    <<"Y">> :> "KeyY" @@
    <<"K","E","Y","Z">> :> "KeyZ" @@
    <<"Z">> :> "KeyZ" @@
    <<"M","I","N","U","S">> :> "Minus" @@
    <<"-">> :> "Minus" @@
    <<"P","E","R","I","O","D">> :> "Period" @@
    <<".">> :> "Period" @@
    <<"Q","U","O","T","E">> :> "Quote" @@
    <<"'">> :> "Quote" @@
    <<"S","E","M","I","C","O","L","O","N">> :> "Semicolon" @@
    <<";">> :> "Semicolon" @@
    <<"S","L","A","S","H">> :> "Slash" @@
    <<"/">> :> "Slash" @@
    <<"B","A","C","K","S","P","A","C","E">> :> "Backspace" @@
    <<"C","A","P","S","L","O","C","K">> :> "CapsLock" @@
    <<"E","N","T","E","R">> :> "Enter" @@
    <<"S","P","A","C","E">> :> "Space" @@
    <<"T","A","B">> :> "Tab" @@
    <<"D","E","L","E","T","E">> :> "Delete" @@
    <<"E","N","D">> :> "End" @@
    <<"H","O","M","E">> :> "Home" @@
    <<"I","N","S","E","R","T">> :> "Insert" @@
    <<"P","A","G","E","D","O","W","N">> :> "PageDown" @@
    <<"P","A","G","E","U","P">> :> "PageUp" @@
    <<"P","R","I","N","T","S","C","R","E","E","N">> :> "PrintScreen" @@
    <<"S","C","R","O","L","L","L","O","C","K">> :> "ScrollLock" @@
    <<"A","R","R","O","W","D","O","W","N">> :> "ArrowDown" @@
    <<"D","O","W","N">> :> "ArrowDown" @@
    <<"A","R","R","O","W","L","E","F","T">> :> "ArrowLeft" @@
    <<"L","E","F","T">> :> "ArrowLeft" @@
    <<"A","R","R","O","W","R","I","G","H","T">> :> "ArrowRight" @@
    <<"R","I","G","H","T">> :> "ArrowRight" @@
    <<"A","R","R","O","W","U","P">> :> "ArrowUp" @@
    <<"U","P">> :> "ArrowUp" @@
    <<"N","U","M","L","O","C","K">> :> "NumLock" @@
    <<"N","U","M","P","A","D","0">> :> "Numpad0" @@
    <<"N","U","M","0">> :> "Numpad0" @@
    <<"N","U","M","P","A","D","1">> :> "Numpad1" @@
    <<"N","U","M","1">> :> "Numpad1" @@
    <<"N","U","M","P","A","D","2">> :> "Numpad2" @@
    <<"N","U","M","2">> :> "Numpad2" @@
    <<"N","U","M","P","A","D","3">> :> "Numpad3" @@
    <<"N","U","M","3">> :> "Numpad3" @@
    <<"N","U","M","P","A","D","4">> :> "Numpad4" @@
    <<"N","U","M","4">> :> "Numpad4" @@
    <<"N","U","M","P","A","D","5">> :> "Numpad5" @@
    <<"N","U","M","5">> :> "Numpad5" @@
    <<"N","U","M","P","A","D","6">> :> "Numpad6" @@
    <<"N","U","M","6">> :> "Numpad6" @@
    <<"N","U","M","P","A","D","7">> :> "Numpad7" @@
    <<"N","U","M","7">> :> "Numpad7" @@
    <<"N","U","M","P","A","D","8">> :> "Numpad8" @@
    <<"N","U","M","8">> :> "Numpad8" @@
    <<"N","U","M","P","A","D","9">> :> "Numpad9" @@
    <<"N","U","M","9">> :> "Numpad9" @@
    <<"N","U","M","P","A","D","A","D","D">> :> "NumpadAdd" @@
    <<"N","U","M","A","D","D">> :> "NumpadAdd" @@
    <<"N","U","M","P","A","D","P","L","U","S">> :> "NumpadAdd" @@
    <<"N","U","M","P","L","U","S">> :> "NumpadAdd" @@
    <<"N","U","M","P","A","D","D","E","C","I","M","A","L">> :> "NumpadDecimal" @@
    <<"N","U","M","D","E","C","I","M","A","L">> :> "NumpadDecimal" @@
    <<"N","U","M","P","A","D","D","I","V","I","D","E">> :> "NumpadDivide" @@
    <<"N","U","M","D","I","V","I","D","E">> :> "NumpadDivide" @@
    <<"N","U","M","P","A","D","E","N","T","E","R">> :> "NumpadEnter" @@
    <<"N","U","M","E","N","T","E","R">> :> "NumpadEnter" @@
    <<"N","U","M","P","A","D","E","Q","U","A","L">> :> "NumpadEqual" @@
    <<"N","U","M","E","Q","U","A","L">> :> "NumpadEqual" @@
    <<"N","U","M","P","A","D","M","U","L","T","I","P","L","Y">> :> "NumpadMultiply" @@
    <<"N","U","M","M","U","L","T","I","P","L","Y">> :> "NumpadMultiply" @@
    <<"N","U","M","P","A","D","S","U","B","T","R","A","C","T">> :> "NumpadSubtract" @@
    <<"N","U","M","S","U","B","T","R","A","C","T">> :> "NumpadSubtract" @@
    <<"E","S","C","A","P","E">> :> "Escape" @@
    <<"E","S","C">> :> "Escape" @@
    <<"F","1">> :> "F1" @@
    <<"F","2">> :> "F2" @@
    <<"F","3">> :> "F3" @@
    <<"F","4">> :> "F4" @@
    <<"F","5">> :> "F5" @@
    <<"F","6">> :> "F6" @@
    <<"F","7">> :> "F7" @@
    <<"F","8">> :> "F8" @@
    <<"F","9">> :> "F9" @@
    <<"F","1","0">> :> "F10" @@
    <<"F","1","1">> :> "F11" @@
    <<"F","1","2">> :> "F12" @@
    <<"A","U","D","I","O","V","O","L","U","M","E","D","O","W","N">> :> "AudioVolumeDown" @@
    <<"V","O","L","U","M","E","D","O","W","N">> :> "AudioVolumeDown" @@
    <<"A","U","D","I","O","V","O","L","U","M","E","U","P">> :> "AudioVolumeUp" @@
    <<"V","O","L","U","M","E","U","P">> :> "AudioVolumeUp" @@
    <<"A","U","D","I","O","V","O","L","U","M","E","M","U","T","E">> :> "AudioVolumeMute" @@
    <<"V","O","L","U","M","E","M","U","T","E">> :> "AudioVolumeMute" @@
    <<"F","1","3">> :> "F13" @@
    <<"F","1","4">> :> "F14" @@
    <<"F","1","5">> :> "F15" @@
    <<"F","1","6">> :> "F16" @@
    <<"F","1","7">> :> "F17" @@
    <<"F","1","8">> :> "F18" @@
    <<"F","1","9">> :> "F19" @@
    <<"F","2","0">> :> "F20" @@
    <<"F","2","1">> :> "F21" @@
    <<"F","2","2">> :> "F22" @@
    <<"F","2","3">> :> "F23" @@
    <<"F","2","4">> :> "F24"

Err(e, a) == [kind |-> "Err", error |-> e, arg |-> a]

\* the keywords parse_key matches
KeyKeywords == DOMAIN parse_key_table

\* parse_key: Ok(Code) for a keyword in any letter case, else UnrecognizedHotKeyCode
parse_key(key) ==
    LET u == to_uppercase(key)
    IN  IF u \in KeyKeywords
        THEN [kind |-> "Ok", code |-> parse_key_table[u]]
        ELSE Err("UnrecognizedHotKeyCode", key)

(***************************************************************************)
(* parse_hotkey.                                                           *)
(***************************************************************************)
KwAlt     == {<<"O","P","T","I","O","N">>, <<"A","L","T">>}
KwControl == {<<"C","O","N","T","R","O","L">>, <<"C","T","R","L">>}
KwMeta    == {<<"C","O","M","M","A","N","D">>, <<"C","M","D">>, <<"S","U","P","E","R">>}
KwShift   == {<<"S","H","I","F","T">>}
KwCmdOrCtrl ==
    {<<"C","O","M","M","A","N","D","O","R","C","O","N","T","R","O","L">>,
     <<"C","O","M","M","A","N","D","O","R","C","T","R","L">>,
     <<"C","M","D","O","R","C","T","R","L">>,
     <<"C","M","D","O","R","C","O","N","T","R","O","L">>}

\* a match whose COMMANDORCONTROL arm sets CONTROL on every target
modifier_keyword_control_on_every_target(u) ==
    CASE u \in KwAlt       -> "ALT"
      [] u \in KwControl   -> "CONTROL"
      [] u \in KwMeta      -> "META"
      [] u \in KwShift     -> "SHIFT"
      [] u \in KwCmdOrCtrl -> "CONTROL"
      [] OTHER             -> None

\* the match on token.to_uppercase(): the flag a modifier keyword sets, or None
modifier_keyword(u) ==
    CASE u \in KwAlt       -> "ALT"
      [] u \in KwControl   -> "CONTROL"
      [] u \in KwMeta      -> "META"
      [] u \in KwShift     -> "SHIFT"
      [] u \in KwCmdOrCtrl -> IF target_os = "macos" THEN "META" ELSE "CONTROL"
      [] OTHER             -> None

RECURSIVE parse_tokens_any_order(_, _, _, _, _)
\* the for loop without its key.is_some() test: a later key replaces the earlier
\* one and a modifier may follow the key
parse_tokens_any_order(hotkey, tokens, i, mods, key) ==
    IF i > Len(tokens) THEN [kind |-> "End", mods |-> mods, key |-> key]
    ELSE
      LET token == trim(tokens[i])
      IN  IF Len(token) = 0 THEN Err("EmptyHotKeyToken", hotkey)
          ELSE
            LET m == modifier_keyword(to_uppercase(token))
            IN  IF m # None
                THEN parse_tokens_any_order(hotkey, tokens, i + 1, mods \cup {m}, key)
                ELSE LET k == parse_key(token)
                     IN  IF k.kind = "Err" THEN k
                         ELSE parse_tokens_any_order(hotkey, tokens, i + 1, mods, k.code)

RECURSIVE parse_tokens_no_empty_check(_, _, _, _, _)
\* the for loop without its token.is_empty() test
parse_tokens_no_empty_check(hotkey, tokens, i, mods, key) ==
    IF i > Len(tokens) THEN [kind |-> "End", mods |-> mods, key |-> key]
    ELSE
      LET token == trim(tokens[i])
      IN  IF key # None THEN Err("UnexpectedHotKeyFormat", hotkey)
          ELSE
            LET m == modifier_keyword(to_uppercase(token))
            IN  IF m # None
                THEN parse_tokens_no_empty_check(hotkey, tokens, i + 1, mods \cup {m}, key)
                ELSE LET k == parse_key(token)
                     IN  IF k.kind = "Err" THEN k
                         ELSE parse_tokens_no_empty_check(hotkey, tokens, i + 1, mods, k.code)

RECURSIVE parse_tokens_key_test_first(_, _, _, _, _)
\* the for loop with its key.is_some() test ahead of its token.is_empty() test
parse_tokens_key_test_first(hotkey, tokens, i, mods, key) ==
    IF i > Len(tokens) THEN [kind |-> "End", mods |-> mods, key |-> key]
    ELSE
      LET token == trim(tokens[i])
      IN  IF key # None THEN Err("UnexpectedHotKeyFormat", hotkey)
          ELSE IF Len(token) = 0 THEN Err("EmptyHotKeyToken", hotkey)
          ELSE
            LET m == modifier_keyword(to_uppercase(token))
            IN  IF m # None
                THEN parse_tokens_key_test_first(hotkey, tokens, i + 1, mods \cup {m}, key)
                ELSE LET k == parse_key(token)
                     IN  IF k.kind = "Err" THEN k
                         ELSE parse_tokens_key_test_first(hotkey, tokens, i + 1, mods, k.code)

RECURSIVE parse_tokens(_, _, _, _, _)
\* the for loop over the tokens of a string of two or more tokens
parse_tokens(hotkey, tokens, i, mods, key) ==
    IF i > Len(tokens) THEN [kind |-> "End", mods |-> mods, key |-> key]
    ELSE
      LET token == trim(tokens[i])
      IN  IF Len(token) = 0 THEN Err("EmptyHotKeyToken", hotkey)
          ELSE IF key # None THEN Err("UnexpectedHotKeyFormat", hotkey)
          ELSE
            LET m == modifier_keyword(to_uppercase(token))
            IN  IF m # None
                THEN parse_tokens(hotkey, tokens, i + 1, mods \cup {m}, key)
                ELSE LET k == parse_key(token)
                     IN  IF k.kind = "Err" THEN k
                         ELSE parse_tokens(hotkey, tokens, i + 1, mods, k.code)

\* a match on tokens.len() without its arm for one token: every string goes
\* through the loop
parse_match_loop_only(hotkey) ==
    parse_tokens(hotkey, split(hotkey), 1, {}, None)

\* the match on tokens.len(): a lone token is the key, untrimmed
parse_match(hotkey) ==
    LET tokens == split(hotkey)
    IN  IF Len(tokens) = 1
        THEN LET k == parse_key(tokens[1])
             IN  IF k.kind = "Err" THEN k
                 ELSE [kind |-> "End", mods |-> {}, key |-> k.code]
        ELSE parse_tokens(hotkey, tokens, 1, {}, None)

\* COUNTER.next(): the id it hands out and the counter afterwards.  The module
\* counter is not among the sources; as the specification has it, the counter is
\* process-wide, only grows, and hands out no id twice
Counter_next == [id |-> counter, counter |-> counter + 1]

\* parse_hotkey: an error, a HotKey with the next id, or the panic of key.unwrap()
parse_hotkey(hotkey) ==
    LET r == parse_match(hotkey)
    IN  IF r.kind = "Err" THEN r
        ELSE IF r.key = None THEN [kind |-> "Panic"]
        ELSE [kind |-> "Ok",
              hotkey |-> [mods |-> r.mods, key |-> r.key, id |-> Counter_next.id]]

\* a HotKey::new that derives the id from the modifiers instead of taking it from COUNTER
HotKey_new_id_from_mods(mods, key) ==
    [mods |-> IF Len(mods) = 0 THEN {} ELSE mods[1], key |-> key,
     id |-> IF Len(mods) = 0 THEN 1 ELSE 1 + Cardinality(mods[1])]

\* HotKey::new(mods, key); an Option is <<>> for None and <<m>> for Some(m)
HotKey_new(mods, key) ==
    [mods |-> IF Len(mods) = 0 THEN {} ELSE mods[1], key |-> key, id |-> Counter_next.id]

\* an equality over mods and key alone
HotKey_eq_mods_key(a, b) == a.mods = b.mods /\ a.key = b.key

\* derive(PartialEq, Eq): field by field, over mods, key and id
HotKey_eq(a, b) == a.mods = b.mods /\ a.key = b.key /\ a.id = b.id

\* derive(Hash): what is fed to the hasher, the fields in declaration order
HotKey_hash(a) == <<a.mods, a.key, a.id>>

(***************************************************************************)
(* The strings given to the parser.                                        *)
(***************************************************************************)
Words ==
    { <<>>, <<" ">>,
      <<"s","h","i","f","t">>, <<"C","T","R","L">>, <<" ","A","l","t"," ">>,
      <<"C","m","d","O","r","C","t","r","l">>,
      <<"K","e","y","Q">>, <<"g">>, <<" ","F","1","2">>,
      <<"S","H","G","S","H">> }

RECURSIVE join(_)
\* the tokens with a '+' between each two
join(ws) ==
    IF Len(ws) = 0 THEN <<>>
    ELSE IF Len(ws) = 1 THEN ws[1]
    ELSE ws[1] \o <<"+">> \o join(Tail(ws))

WordSeqs == UNION {[1..n -> Words] : n \in 1..MaxTokens}

FourMods == {"ALT", "CONTROL", "SHIFT", "META"}

\* the keywords that name a modifier on this target, in a fixed order
Aliases(flag) ==
    LET cmdorctrl == <<<<"C","m","d","O","r","C","t","r","l">>,
                       <<"C","o","m","m","a","n","d","O","r","C","o","n","t","r","o","l">>,
                       <<"C","o","m","m","a","n","d","O","r","C","t","r","l">>,
                       <<"C","m","d","O","r","C","o","n","t","r","o","l">>>>
    IN  CASE flag = "ALT"     -> <<<<"A","l","t">>, <<"O","p","t","i","o","n">>>>
          [] flag = "SHIFT"   -> <<<<"S","h","i","f","t">>>>
          [] flag = "CONTROL" ->
                <<<<"C","t","r","l">>, <<"C","o","n","t","r","o","l">>>>
                \o (IF target_os = "macos" THEN <<>> ELSE cmdorctrl)
          [] flag = "META"    ->
                <<<<"S","u","p","e","r">>, <<"C","m","d">>, <<"C","o","m","m","a","n","d">>>>
                \o (IF target_os = "macos" THEN cmdorctrl ELSE <<>>)

CaseStyles == {"upper", "lower", "mixed", "as-is"}

\* a keyword in one of the letter cases
in_case(s, style) ==
    [i \in 1..Len(s) |->
        CASE style = "upper" -> char_to_uppercase(s[i])
          [] style = "lower" -> char_to_lowercase(s[i])
          [] style = "mixed" -> IF i % 2 = 0 THEN char_to_uppercase(s[i])
                                             ELSE char_to_lowercase(s[i])
          [] OTHER           -> s[i]]

\* the orders of the subsets of the four modifiers
ModOrders ==
    UNION {{o \in [1..n -> FourMods] : \A i, j \in 1..n : i # j => o[i] # o[j]}
           : n \in 0..4}

\* one order of each subset
SortedOrders ==
    LET rank == [f \in FourMods |->
                    CASE f = "ALT" -> 1 [] f = "CONTROL" -> 2 [] f = "SHIFT" -> 3 [] OTHER -> 4]
    IN  {o \in ModOrders : \A i, j \in 1..Len(o) : i < j => rank[o[i]] < rank[o[j]]}

\* render(M, K): the modifier keywords in the given order, then the key keyword
render(order, alias, K, style) ==
    join([i \in 1..Len(order) + 1 |->
            IF i <= Len(order)
            THEN in_case(Aliases(order[i])[((alias - 1) % Len(Aliases(order[i]))) + 1], style)
            ELSE in_case(K, style)])

\* the key keywords rendered after every order of the modifiers
FewKeywords == {<<"K","E","Y","Q">>, <<"=">>, <<"N","U","M","P","A","D","P","L","U","S">>}

NotRun == [kind |-> "NotRun"]
NoRender == [mods |-> {}, key |-> <<>>]

ParseInit ==
    /\ counter = 1
    /\ input = <<>>
    /\ rendered = NoRender
    /\ parsed = NotRun
    /\ built = <<>>
    /\ issued = {}

\* what a construction does to the counter and to the values the client keeps
Construct(result, keep) ==
    /\ parsed' = result
    /\ counter' = IF result.kind = "Ok" THEN Counter_next.counter ELSE counter
    /\ issued' = IF result.kind = "Ok" THEN issued \cup {result.hotkey.id} ELSE issued
    /\ built' = IF result.kind = "Ok" /\ keep THEN Append(built, result.hotkey) ELSE built
    /\ keep => result.kind = "Ok" /\ Len(built) < MaxBuilt

\* s.parse::<HotKey>()
Parse(s, keep) ==
    /\ input' = s
    /\ Construct(parse_hotkey(s), keep)
    /\ UNCHANGED <<target_os, sinkVars, x11Vars, restVars>>

\* a string assembled from Words
ParseWords ==
    /\ parsed = NotRun
    /\ \E ws \in WordSeqs : Parse(join(ws), FALSE)
    /\ rendered' = NoRender

\* every key keyword after every subset of the modifiers
ParseRenderedKey ==
    /\ parsed = NotRun
    /\ \E o \in SortedOrders, K \in KeyKeywords, st \in CaseStyles :
        /\ Parse(render(o, 1, K, st), FALSE)
        /\ rendered' = [mods |-> {o[i] : i \in 1..Len(o)}, key |-> K]

\* every order and alias of the modifiers before a few key keywords
ParseRenderedMods ==
    /\ parsed = NotRun
    /\ \E o \in ModOrders, a \in 1..MaxAlias, K \in FewKeywords, st \in CaseStyles :
        /\ Parse(render(o, a, K, st), FALSE)
        /\ rendered' = [mods |-> {o[i] : i \in 1..Len(o)}, key |-> K]

NewCodes == {"KeyQ", "F12"}
NewMods  == {<<>>, <<{}>>, <<{"SHIFT"}>>, <<{"META"}>>, <<{"SUPER"}>>}
KeptStrings == {<<"K","e","y","Q">>, <<"q">>, join(<<<<"s","h","i","f","t">>, <<"Q">>>>),
                join(<<<<"S","H","I","F","T">>, <<"k","e","y","q">>>>)}

\* HotKey::new
NewHotKey ==
    /\ counter <= MaxIds
    /\ \E m \in NewMods, k \in NewCodes, keep \in BOOLEAN :
        /\ input' = <<>>
        /\ Construct([kind |-> "Ok", hotkey |-> HotKey_new(m, k)], keep)
    /\ UNCHANGED <<target_os, rendered, sinkVars, x11Vars, restVars>>

\* a parse whose HotKey the client may keep
ParseKept ==
    /\ counter <= MaxIds
    /\ \E s \in KeptStrings, keep \in BOOLEAN : Parse(s, keep)
    /\ UNCHANGED rendered

(***************************************************************************)
(* The event sink of lib.rs.                                               *)
(***************************************************************************)
SinkInit ==
    /\ handler = "unset"
    /\ channel = <<>>
    /\ handled = <<>>

\* a send that enqueues to the channel whether or not a handler is installed
GlobalHotKeyEvent_send_always_enqueues(ev) ==
    [handler |-> IF handler = "unset" THEN "none" ELSE handler,
     channel |-> Append(channel, ev),
     handled |-> IF handler = "some" THEN Append(handled, ev) ELSE handled]

\* a send that drops an event equal to the last one its sink took
GlobalHotKeyEvent_send_dedup(ev) ==
    LET sink == IF handler = "some" THEN handled ELSE channel
        dup  == Len(sink) > 0 /\ sink[Len(sink)] = ev
    IN  [handler |-> IF handler = "unset" THEN "none" ELSE handler,
         channel |-> IF handler = "some" \/ dup THEN channel ELSE Append(channel, ev),
         handled |-> IF handler = "some" /\ ~dup THEN Append(handled, ev) ELSE handled]

\* a send that reads the cell with get and leaves an empty cell empty
GlobalHotKeyEvent_send_leaves_cell(ev) ==
    [handler |-> handler,
     channel |-> IF handler = "some" THEN channel ELSE Append(channel, ev),
     handled |-> IF handler = "some" THEN Append(handled, ev) ELSE handled]

\* GlobalHotKeyEvent::send: get_or_init(|| None), then the handler or the channel
GlobalHotKeyEvent_send(ev) ==
    [handler |-> IF handler = "unset" THEN "none" ELSE handler,
     channel |-> IF handler = "some" THEN channel ELSE Append(channel, ev),
     handled |-> IF handler = "some" THEN Append(handled, ev) ELSE handled]

\* a set_event_handler that replaces what the cell holds
set_event_handler_overwrites(f) == f

\* GlobalHotKeyEvent::set_event_handler(f): OnceCell::set, ignored when already set
set_event_handler(f) == IF handler = "unset" THEN f ELSE handler

\* every event sent so far, whichever sink took it
Sent == Len(channel) + Len(handled)

(***************************************************************************)
(* X11: masks, keysyms and the calls into Xlib.                            *)
(***************************************************************************)
ShiftMask   == 1
LockMask    == 2
ControlMask == 4
Mod1Mask    == 8
Mod2Mask    == 16
Mod4Mask    == 64
KeyPress    == 2
KeyRelease  == 3
BadAccess   == 10
GrabSuccess == 1

RECURSIVE BitAnd(_, _)
BitAnd(a, b) ==
    IF a = 0 \/ b = 0 THEN 0
    ELSE (a % 2) * (b % 2) + 2 * BitAnd(a \div 2, b \div 2)

RECURSIVE BitOr(_, _)
BitOr(a, b) ==
    IF a = 0 THEN b
    ELSE IF b = 0 THEN a
    ELSE (IF a % 2 = 1 \/ b % 2 = 1 THEN 1 ELSE 0) + 2 * BitOr(a \div 2, b \div 2)

IGNORED_MODS == <<0, Mod2Mask, LockMask, BitOr(Mod2Mask, LockMask)>>

\* keycode_to_x11_scancode: the keysym of each Code that has one
x11_scancode_table ==
    "KeyA" :> "A" @@
    "KeyB" :> "B" @@
    "KeyC" :> "C" @@
    "KeyD" :> "D" @@
    "KeyE" :> "E" @@
    "KeyF" :> "F" @@
    "KeyG" :> "G" @@
    "KeyH" :> "H" @@
    "KeyI" :> "I" @@
    "KeyJ" :> "J" @@
    "KeyK" :> "K" @@
    "KeyL" :> "L" @@
    "KeyM" :> "M" @@
    "KeyN" :> "N" @@
    "KeyO" :> "O" @@
    "KeyP" :> "P" @@
    "KeyQ" :> "Q" @@
    "KeyR" :> "R" @@
    "KeyS" :> "S" @@
    "KeyT" :> "T" @@
    "KeyU" :> "U" @@
    "KeyV" :> "V" @@
    "KeyW" :> "W" @@
    "KeyX" :> "X" @@
    "KeyY" :> "Y" @@
    "KeyZ" :> "Z" @@
    "Backslash" :> "XK_backslash" @@
    "BracketLeft" :> "XK_bracketleft" @@
    "BracketRight" :> "XK_bracketright" @@
    "Comma" :> "XK_comma" @@
    "Digit0" :> "0" @@
    "Digit1" :> "1" @@
    "Digit2" :> "2" @@
    "Digit3" :> "3" @@
    "Digit4" :> "4" @@
    "Digit5" :> "5" @@
    "Digit6" :> "6" @@
    "Digit7" :> "7" @@
    "Digit8" :> "8" @@
    "Digit9" :> "9" @@
    "Equal" :> "XK_equal" @@
    "IntlBackslash" :> "XK_backslash" @@
    "Minus" :> "XK_minus" @@
    "Period" :> "XK_period" @@
    "Quote" :> "XK_leftsinglequotemark" @@
    "Semicolon" :> "XK_semicolon" @@
    "Slash" :> "XK_slash" @@
    "Backspace" :> "XK_BackSpace" @@
    "CapsLock" :> "XK_Caps_Lock" @@
    "Enter" :> "XK_Return" @@
    "Space" :> "XK_space" @@
    "Tab" :> "XK_Tab" @@
    "Delete" :> "XK_Delete" @@
    "End" :> "XK_End" @@
    "Home" :> "XK_Home" @@
    "Insert" :> "XK_Insert" @@
    "PageDown" :> "XK_Page_Down" @@
    "PageUp" :> "XK_Page_Up" @@
    "ArrowDown" :> "XK_Down" @@
    "ArrowLeft" :> "XK_Left" @@
    "ArrowRight" :> "XK_Right" @@
    "ArrowUp" :> "XK_Up" @@
    "Numpad0" :> "XK_KP_0" @@
    "Numpad1" :> "XK_KP_1" @@
    "Numpad2" :> "XK_KP_2" @@
    "Numpad3" :> "XK_KP_3" @@
    "Numpad4" :> "XK_KP_4" @@
    "Numpad5" :> "XK_KP_5" @@
    "Numpad6" :> "XK_KP_6" @@
    "Numpad7" :> "XK_KP_7" @@
    "Numpad8" :> "XK_KP_8" @@
    "Numpad9" :> "XK_KP_9" @@
    "NumpadAdd" :> "XK_KP_Add" @@
    "NumpadDecimal" :> "XK_KP_Decimal" @@
    "NumpadDivide" :> "XK_KP_Divide" @@
    "NumpadMultiply" :> "XK_KP_Multiply" @@
    "NumpadSubtract" :> "XK_KP_Subtract" @@
    "Escape" :> "XK_Escape" @@
    "PrintScreen" :> "XK_Print" @@
    "ScrollLock" :> "XK_Scroll_Lock" @@
    "Pause" :> "XF86XK_AudioPlay" @@
    "MediaStop" :> "XF86XK_AudioStop" @@
    "MediaTrackNext" :> "XF86XK_AudioNext" @@
    "MediaTrackPrevious" :> "XF86XK_AudioPrev" @@
    "AudioVolumeDown" :> "XF86XK_AudioLowerVolume" @@
    "AudioVolumeMute" :> "XF86XK_AudioMute" @@
    "AudioVolumeUp" :> "XF86XK_AudioRaiseVolume" @@
    "F1" :> "XK_F1" @@
    "F2" :> "XK_F2" @@
    "F3" :> "XK_F3" @@
    "F4" :> "XK_F4" @@
    "F5" :> "XK_F5" @@
    "F6" :> "XK_F6" @@
    "F7" :> "XK_F7" @@
    "F8" :> "XK_F8" @@
    "F9" :> "XK_F9" @@
    "F10" :> "XK_F10" @@
    "F11" :> "XK_F11" @@
    "F12" :> "XK_F12"

\* keycode_to_x11_scancode(key): Some(keysym) as <<keysym>>, None as <<>>
keycode_to_x11_scancode(key) ==
    IF key \in DOMAIN x11_scancode_table THEN <<x11_scancode_table[key]>> ELSE <<>>

\* modifiers_to_x11_mods
modifiers_to_x11_mods(modifiers) ==
    LET shift == IF "SHIFT" \in modifiers THEN ShiftMask ELSE 0
        super == IF modifiers \cap {"SUPER", "META"} # {} THEN Mod4Mask ELSE 0
        alt   == IF "ALT" \in modifiers THEN Mod1Mask ELSE 0
        ctrl  == IF "CONTROL" \in modifiers THEN ControlMask ELSE 0
    IN  BitOr(BitOr(BitOr(shift, super), alt), ctrl)

\* XKeysymToKeycode: the keycode the server's keyboard mapping gives a keysym
XKeysymToKeycode(keysym) ==
    CASE keysym = "A"            -> 38
      [] keysym = "Q"            -> 24
      [] keysym = "XK_backslash" -> 51
      [] OTHER                   -> 0

\* XGrabKey: BadAccess when another client holds the grab
XGrabKey(keycode, mask) ==
    IF <<mask, keycode>> \in foreign THEN BadAccess ELSE GrabSuccess

\* the four masks a combination is grabbed and ungrabbed with
Variants(modifiers, keycode) ==
    {<<BitOr(modifiers, IGNORED_MODS[i]), keycode>> : i \in 1..Len(IGNORED_MODS)}

\* the loop of XUngrabKey over IGNORED_MODS
ungrab_all(modifiers, keycode, g) == g \ Variants(modifiers, keycode)

RECURSIVE grab_loop_no_rollback(_, _, _, _)
\* a loop of XGrabKey that notes a BadAccess and goes on: no XUngrabKey, no break
grab_loop_no_rollback(modifiers, keycode, i, g) ==
    IF i > Len(IGNORED_MODS) THEN [errored |-> FALSE, grabs |-> g, attempts |-> i - 1]
    ELSE IF XGrabKey(keycode, BitOr(modifiers, IGNORED_MODS[i])) = BadAccess
         THEN [grab_loop_no_rollback(modifiers, keycode, i + 1, g) EXCEPT !.errored = TRUE]
         ELSE grab_loop_no_rollback(modifiers, keycode, i + 1,
                        g \cup {<<BitOr(modifiers, IGNORED_MODS[i]), keycode>>})

RECURSIVE grab_loop(_, _, _, _)
\* the loop of XGrabKey over IGNORED_MODS, undone and left at the first BadAccess;
\* attempts is the number of XGrabKey calls made
grab_loop(modifiers, keycode, i, g) ==
    IF i > Len(IGNORED_MODS) THEN [errored |-> FALSE, grabs |-> g, attempts |-> i - 1]
    ELSE IF XGrabKey(keycode, BitOr(modifiers, IGNORED_MODS[i])) = BadAccess
         THEN [errored |-> TRUE, grabs |-> ungrab_all(modifiers, keycode, g),
               attempts |-> i]
         ELSE grab_loop(modifiers, keycode, i + 1,
                        g \cup {<<BitOr(modifiers, IGNORED_MODS[i]), keycode>>})

OkResult == [kind |-> "Ok"]

\* the (mods, keycode) key of a HotKey in the worker's table, when it has a keysym
NativeCombo(hotkey) ==
    <<modifiers_to_x11_mods(hotkey.mods),
      XKeysymToKeycode(keycode_to_x11_scancode(hotkey.key)[1])>>

Translatable(hotkey) == Len(keycode_to_x11_scancode(hotkey.key)) = 1

\* HashMap::remove
Remove(table, c) == [x \in DOMAIN table \ {c} |-> table[x]]

\* a RegisterHotKey arm that makes the entry before it grabs and keeps it when a
\* grab is refused
register_hotkey_insert_first(hotkey) ==
    LET modifiers == modifiers_to_x11_mods(hotkey.mods)
        key       == keycode_to_x11_scancode(hotkey.key)
    IN  IF Len(key) = 0
        THEN [replies |-> <<Err("FailedToRegister", hotkey.key)>>,
              hotkeys |-> hotkeys, grabs |-> grabs, errored |-> FALSE]
        ELSE
          LET keycode == XKeysymToKeycode(key[1])
              g       == grab_loop(modifiers, keycode, 1, grabs)
              table   == IF <<modifiers, keycode>> \in DOMAIN hotkeys THEN hotkeys
                         ELSE (<<modifiers, keycode>> :>
                                  [id |-> hotkey.id, repeating |-> FALSE]) @@ hotkeys
          IN  IF g.errored \/ <<modifiers, keycode>> \in DOMAIN hotkeys
              THEN [replies |-> <<Err("AlreadyRegistered", hotkey)>>,
                    hotkeys |-> table, grabs |-> g.grabs, errored |-> g.errored]
              ELSE [replies |-> <<OkResult>>,
                    hotkeys |-> table, grabs |-> g.grabs, errored |-> FALSE]

\* a RegisterHotKey arm that takes a key without a keysym as NoSymbol and goes on
\* to grab the keycode XKeysymToKeycode gives for it
register_hotkey_no_keysym_test(hotkey) ==
    LET modifiers == modifiers_to_x11_mods(hotkey.mods)
        key       == keycode_to_x11_scancode(hotkey.key)
        keycode   == XKeysymToKeycode(IF Len(key) = 0 THEN "NoSymbol" ELSE key[1])
        g         == grab_loop(modifiers, keycode, 1, grabs)
    IN  IF g.errored
        THEN [replies |-> <<Err("AlreadyRegistered", hotkey)>>,
              hotkeys |-> hotkeys, grabs |-> g.grabs, errored |-> TRUE]
        ELSE IF <<modifiers, keycode>> \in DOMAIN hotkeys
        THEN [replies |-> <<Err("AlreadyRegistered", hotkey), OkResult>>,
              hotkeys |-> hotkeys, grabs |-> g.grabs, errored |-> FALSE]
        ELSE [replies |-> <<OkResult>>,
              hotkeys |-> (<<modifiers, keycode>> :>
                              [id |-> hotkey.id, repeating |-> FALSE]) @@ hotkeys,
              grabs |-> g.grabs, errored |-> FALSE]

\* a RegisterHotKey arm whose rollback gives up every grab of the connection and
\* empties the table
register_hotkey_rollback_all(hotkey) ==
    LET modifiers == modifiers_to_x11_mods(hotkey.mods)
        key       == keycode_to_x11_scancode(hotkey.key)
    IN  IF Len(key) = 0
        THEN [replies |-> <<Err("FailedToRegister", hotkey.key)>>,
              hotkeys |-> hotkeys, grabs |-> grabs, errored |-> FALSE]
        ELSE
          LET keycode == XKeysymToKeycode(key[1])
              g       == grab_loop(modifiers, keycode, 1, grabs)
          IN  IF g.errored
              THEN [replies |-> <<Err("AlreadyRegistered", hotkey)>>,
                    hotkeys |-> <<>>, grabs |-> {}, errored |-> TRUE]
              ELSE IF <<modifiers, keycode>> \in DOMAIN hotkeys
              THEN [replies |-> <<Err("AlreadyRegistered", hotkey), OkResult>>,
                    hotkeys |-> hotkeys, grabs |-> g.grabs, errored |-> FALSE]
              ELSE [replies |-> <<OkResult>>,
                    hotkeys |-> (<<modifiers, keycode>> :>
                                    [id |-> hotkey.id, repeating |-> FALSE]) @@ hotkeys,
                    grabs |-> g.grabs, errored |-> FALSE]

\* a RegisterHotKey arm whose refused duplicate takes the entry over
register_hotkey_duplicate_takes_over(hotkey) ==
    LET modifiers == modifiers_to_x11_mods(hotkey.mods)
        key       == keycode_to_x11_scancode(hotkey.key)
    IN  IF Len(key) = 0
        THEN [replies |-> <<Err("FailedToRegister", hotkey.key)>>,
              hotkeys |-> hotkeys, grabs |-> grabs, errored |-> FALSE]
        ELSE
          LET keycode == XKeysymToKeycode(key[1])
              g       == grab_loop(modifiers, keycode, 1, grabs)
          IN  IF g.errored
              THEN [replies |-> <<Err("AlreadyRegistered", hotkey)>>,
                    hotkeys |-> hotkeys, grabs |-> g.grabs, errored |-> TRUE]
              ELSE IF <<modifiers, keycode>> \in DOMAIN hotkeys
              THEN [replies |-> <<Err("AlreadyRegistered", hotkey), OkResult>>,
                    hotkeys |-> [hotkeys EXCEPT ![<<modifiers, keycode>>].id = hotkey.id],
                    grabs |-> g.grabs, errored |-> FALSE]
              ELSE [replies |-> <<OkResult>>,
                    hotkeys |-> (<<modifiers, keycode>> :>
                                    [id |-> hotkey.id, repeating |-> FALSE]) @@ hotkeys,
                    grabs |-> g.grabs, errored |-> FALSE]

\* the ThreadMessage::RegisterHotKey arm: the replies it sends, the table and the grabs it leaves
register_hotkey(hotkey) ==
    LET modifiers == modifiers_to_x11_mods(hotkey.mods)
        key       == keycode_to_x11_scancode(hotkey.key)
    IN  IF Len(key) = 0
        THEN [replies |-> <<Err("FailedToRegister", hotkey.key)>>,
              hotkeys |-> hotkeys, grabs |-> grabs, errored |-> FALSE]
        ELSE
          LET keycode == XKeysymToKeycode(key[1])
              g       == grab_loop(modifiers, keycode, 1, grabs)
          IN  IF g.errored
              THEN [replies |-> <<Err("AlreadyRegistered", hotkey)>>,
                    hotkeys |-> hotkeys, grabs |-> g.grabs, errored |-> TRUE]
              ELSE IF <<modifiers, keycode>> \in DOMAIN hotkeys
              THEN [replies |-> <<Err("AlreadyRegistered", hotkey), OkResult>>,
                    hotkeys |-> hotkeys, grabs |-> g.grabs, errored |-> FALSE]
              ELSE [replies |-> <<OkResult>>,
                    hotkeys |-> (<<modifiers, keycode>> :>
                                    [id |-> hotkey.id, repeating |-> FALSE]) @@ hotkeys,
                    grabs |-> g.grabs, errored |-> FALSE]

\* an UnRegisterHotKey arm that ungrabs and answers and leaves the table as it is
unregister_hotkey_keeps_entry(hotkey) ==
    LET modifiers == modifiers_to_x11_mods(hotkey.mods)
        key       == keycode_to_x11_scancode(hotkey.key)
    IN  IF Len(key) = 0
        THEN [replies |-> <<>>, hotkeys |-> hotkeys, grabs |-> grabs]
        ELSE [replies |-> <<OkResult>>, hotkeys |-> hotkeys,
              grabs   |-> ungrab_all(modifiers, XKeysymToKeycode(key[1]), grabs)]

\* an UnRegisterHotKey arm that acts only on the entry the HotKey itself made and
\* answers an error otherwise
unregister_hotkey_checks_id(hotkey) ==
    LET modifiers == modifiers_to_x11_mods(hotkey.mods)
        key       == keycode_to_x11_scancode(hotkey.key)
    IN  IF Len(key) = 0
        THEN [replies |-> <<>>, hotkeys |-> hotkeys, grabs |-> grabs]
        ELSE
          LET keycode == XKeysymToKeycode(key[1])
          IN  IF /\ <<modifiers, keycode>> \in DOMAIN hotkeys
                 /\ hotkeys[<<modifiers, keycode>>].id = hotkey.id
              THEN [replies |-> <<OkResult>>,
                    hotkeys |-> Remove(hotkeys, <<modifiers, keycode>>),
                    grabs   |-> ungrab_all(modifiers, keycode, grabs)]
              ELSE [replies |-> <<Err("FailedToUnRegister", hotkey)>>,
                    hotkeys |-> hotkeys, grabs |-> grabs]

\* the ThreadMessage::UnRegisterHotKey arm
unregister_hotkey(hotkey) ==
    LET modifiers == modifiers_to_x11_mods(hotkey.mods)
        key       == keycode_to_x11_scancode(hotkey.key)
    IN  IF Len(key) = 0
        THEN [replies |-> <<>>, hotkeys |-> hotkeys, grabs |-> grabs]
        ELSE
          LET keycode == XKeysymToKeycode(key[1])
          IN  [replies |-> <<OkResult>>,
               hotkeys |-> Remove(hotkeys, <<modifiers, keycode>>),
               grabs   |-> ungrab_all(modifiers, keycode, grabs)]

\* the event state used as it comes, Lock bits included
event_modifiers_raw(state) == state

\* event.key.state & (ControlMask | ShiftMask | Mod4Mask | Mod1Mask)
event_modifiers(state) ==
    BitAnd(state, BitOr(BitOr(BitOr(ControlMask, ShiftMask), Mod4Mask), Mod1Mask))

\* a match that sends at every KeyPress, repeating or not
translate_every_press(e, repeating) ==
    CASE e = KeyPress                -> [send |-> TRUE,  repeating |-> TRUE]
      [] e = KeyRelease /\ repeating -> [send |-> FALSE, repeating |-> FALSE]
      [] OTHER                       -> [send |-> FALSE, repeating |-> repeating]

\* a match that also sends at the KeyRelease that ends the repeating
translate_release_sends(e, repeating) ==
    CASE e = KeyPress /\ ~repeating  -> [send |-> TRUE,  repeating |-> TRUE]
      [] e = KeyRelease /\ repeating -> [send |-> TRUE,  repeating |-> FALSE]
      [] OTHER                       -> [send |-> FALSE, repeating |-> repeating]

\* match (e, *repeating): whether an event is sent, and the flag afterwards
translate(e, repeating) ==
    CASE e = KeyPress /\ ~repeating  -> [send |-> TRUE,  repeating |-> TRUE]
      [] e = KeyRelease /\ repeating -> [send |-> FALSE, repeating |-> FALSE]
      [] OTHER                       -> [send |-> FALSE, repeating |-> repeating]

(***************************************************************************)
(* The manager, its callers, the worker thread and the X server.           *)
(***************************************************************************)
Threads == {"t1"}

\* the HotKey values the callers pass: HK2 and HK3 differ in every field and have
\* the same native combination; Backquote has no keysym in keycode_to_x11_scancode
HK1 == [mods |-> {}, key |-> "KeyA", id |-> 1]
HK2 == [mods |-> {"SHIFT", "META"}, key |-> "Backslash", id |-> 2]
HK3 == [mods |-> {"SHIFT", "SUPER"}, key |-> "IntlBackslash", id |-> 3]
HK4 == [mods |-> {"CONTROL"}, key |-> "Backquote", id |-> 4]

Pool == {HK1, HK2, HK3, HK4}

\* the HotKey values the callers pass in slices
BatchPool == {HK1, HK4}

Combos == {NativeCombo(h) : h \in {x \in Pool : Translatable(x)}}

\* the combination whose history the model keeps: the one the keyboard presses
Tracked == {NativeCombo(HK2)}

\* the (state, keycode) of the native key presses: Shift+Super+backslash in
\* each of the four states of NumLock and CapsLock
PressKeys == Variants(BitOr(ShiftMask, Mod4Mask), 51)

\* the grab another client may hold: Shift+Super+backslash with NumLock on, the
\* second of the four grabs a register of that combination asks for
ForeignCombos == {<<BitOr(BitOr(ShiftMask, Mod4Mask), Mod2Mask), 51>>}

Batches == UNION {[1..n -> BatchPool] : n \in 0..MaxBatch}

KeyUp == [down |-> FALSE, keycode |-> 0, state |-> 0]
NoSend == [t |-> None, result |-> OkResult, live |-> FALSE]
Idle == [pc |-> "idle", op |-> "none", args |-> <<>>, i |-> 0, pre |-> {}]
NoChannel == [buf |-> <<>>, tx |-> FALSE, rx |-> FALSE]
NoRun == [presses |-> 0, events |-> 0, released |-> FALSE]

\* the state GlobalHotKeyManager::new leaves, but for the worker and the handle
X11Fresh ==
    /\ hotkeys = <<>>
    /\ wsend = NoSend
    /\ grabs = {}
    /\ foreign = {}
    /\ xqueue = <<>>
    /\ keyDown = KeyUp
    /\ thread_rx = <<>>
    /\ reply = [t \in Threads |-> NoChannel]
    /\ call = [t \in Threads |-> Idle]
    /\ phase = [c \in Tracked |-> 0]
    /\ run = [c \in Tracked |-> NoRun]
    /\ dropped = FALSE
    /\ npress = 0

\* new has returned the handle and the worker has opened the display
X11Init ==
    /\ X11Fresh
    /\ wpc = "events"
    /\ newret = OkResult

\* the worker thread has ended and thread_rx with it
WorkerGone == wpc \in {"closed", "panicked"}

\* lib.rs: the platform call a public call makes for each element
lib_call(op) ==
    CASE op = "register"       -> "register"
      [] op = "unregister"     -> "unregister"
      [] op = "register_all"   -> "register"
      [] op = "unregister_all" -> "register"

\* x11: the ThreadMessage a platform call sends, with the Sender of its reply channel
thread_message(platform_call, hotkey, t) ==
    [type |-> IF platform_call = "register" THEN "RegisterHotKey" ELSE "UnRegisterHotKey",
     hotkey |-> hotkey, t |-> t]

\* a caller that discards what the worker answered
recv_result_discarded(ch) == OkResult

\* a caller that turns a recv that failed into an error of its own
recv_result_disconnect_is_error(ch) ==
    IF Len(ch.buf) > 0 THEN ch.buf[1] ELSE Err("FailedToRegister", "disconnected")

\* if let Ok(result) = rx.recv() { result?; } Ok(())
recv_result(ch) == IF Len(ch.buf) > 0 THEN ch.buf[1] ELSE OkResult

\* crossbeam_channel::bounded(1)
new_channel == [buf |-> <<>>, tx |-> TRUE, rx |-> TRUE]

\* Sender::send into the one slot; the message is lost when the Receiver is gone
chan_send(ch, result) ==
    IF ch.rx /\ Len(ch.buf) = 0 THEN [ch EXCEPT !.buf = <<result>>] ELSE ch

\* a Sender that is never dropped: the Receiver of an unanswered request waits on
chan_drop_tx_kept(ch) == ch

\* the Sender of a reply channel goes out of scope
chan_drop_tx(ch) == [ch EXCEPT !.tx = FALSE]

\* history: where a combination stands in the sequence the callers may drive it
\* through: 0 before, 1 once a register was answered Ok, 2 once a further register
\* was answered AlreadyRegistered, 3 once an unregister followed that, 4 once a
\* register after the unregister was answered Ok
NextPhase(p, type, first) ==
    CASE type = "RegisterHotKey" /\ first.kind = "Ok" ->
            IF p = 0 THEN 1 ELSE IF p = 3 THEN 4 ELSE p
      [] type = "RegisterHotKey" /\ first.kind = "Err" ->
            IF p \in {1, 4} THEN 2 ELSE p
      [] type = "UnRegisterHotKey" ->
            IF p \in {2, 4} THEN 3 ELSE IF p = 1 THEN 0 ELSE p
      [] OTHER -> p

\* history: the presses handled and the events sent for an entry since it was made
\* or since a release was last handled for it, each counted up to 2, and whether
\* the last event handled for it was a release that found it repeating
NextRun(r, type, sent, repeating) ==
    IF type = KeyRelease
    THEN [presses |-> 0, events |-> 0, released |-> repeating]
    ELSE [presses  |-> IF r.presses < 2 THEN r.presses + 1 ELSE 2,
          events   |-> IF sent /\ r.events < 2 THEN r.events + 1 ELSE r.events,
          released |-> FALSE]

\* the last Ok answer about the combination was to a register
Registered(p) == p \in {1, 2, 4}

(***************************************************************************)
(* The keyboard and the other clients of the X server.                     *)
(***************************************************************************)
\* a key goes down while this connection holds a passive grab of its keycode and
\* modifier state: the grab activates and the press is delivered to the connection.
\* (A press no grab matches goes to the focus window and never reaches the worker.)
PressKey ==
    /\ ~keyDown.down
    /\ wpc # "closed"
    /\ npress < MaxPresses
    /\ Len(xqueue) < MaxPending
    /\ \E sk \in PressKeys \cap grabs :
        /\ keyDown' = [down |-> TRUE, keycode |-> sk[2], state |-> sk[1]]
        /\ xqueue' = Append(xqueue, [type |-> KeyPress, keycode |-> sk[2], state |-> sk[1]])
    /\ npress' = npress + 1
    /\ UNCHANGED <<parseVars, restVars, sinkVars, hotkeys, wpc, wsend, grabs, foreign,
                   thread_rx, reply, call, phase, run, dropped>>

\* the held key repeats: with detectable auto-repeat, one more KeyPress and no KeyRelease
RepeatKey ==
    /\ keyDown.down
    /\ wpc # "closed"
    /\ npress < MaxPresses
    /\ Len(xqueue) < MaxPending
    /\ xqueue' = Append(xqueue, [type |-> KeyPress, keycode |-> keyDown.keycode,
                                 state |-> keyDown.state])
    /\ npress' = npress + 1
    /\ UNCHANGED <<parseVars, restVars, sinkVars, hotkeys, wpc, wsend, grabs, foreign, keyDown,
                   thread_rx, reply, call, phase, run, dropped>>

\* the key goes up: the active grab delivers the release to the connection
ReleaseKey ==
    /\ keyDown.down
    /\ wpc # "closed" => Len(xqueue) < MaxPending
    /\ xqueue' = IF wpc # "closed"
                 THEN Append(xqueue, [type |-> KeyRelease, keycode |-> keyDown.keycode,
                                      state |-> keyDown.state])
                 ELSE xqueue
    /\ keyDown' = KeyUp
    /\ UNCHANGED <<parseVars, restVars, sinkVars, hotkeys, wpc, wsend, grabs, foreign,
                   thread_rx, reply, call, phase, run, dropped, npress>>

\* another client grabs a combination this connection does not hold
ForeignGrab ==
    /\ \E c \in ForeignCombos \ (foreign \cup grabs) : foreign' = foreign \cup {c}
    /\ UNCHANGED <<parseVars, restVars, sinkVars, hotkeys, wpc, wsend, grabs, xqueue, keyDown,
                   thread_rx, reply, call, phase, run, dropped, npress>>

ForeignUngrab ==
    /\ \E c \in foreign : foreign' = foreign \ {c}
    /\ UNCHANGED <<parseVars, restVars, sinkVars, hotkeys, wpc, wsend, grabs, xqueue, keyDown,
                   thread_rx, reply, call, phase, run, dropped, npress>>

(***************************************************************************)
(* The application: the event handler and the public calls of the manager. *)
(***************************************************************************)
\* a thread_tx.send that puts the message in front of those already waiting
SendRequest_in_front(t, op, args, i) ==
    IF WorkerGone
    THEN /\ thread_rx' = thread_rx
         /\ reply' = [reply EXCEPT ![t] = chan_drop_tx(new_channel)]
    ELSE /\ thread_rx' = <<thread_message(lib_call(op), args[i], t)>> \o thread_rx
         /\ reply' = [reply EXCEPT ![t] = new_channel]

\* x11 register / unregister of element i: a new bounded(1) channel and
\* thread_tx.send, which fails, dropping the message, once the worker is gone
SendRequest(t, op, args, i) ==
    IF WorkerGone
    THEN /\ thread_rx' = thread_rx
         /\ reply' = [reply EXCEPT ![t] = chan_drop_tx(new_channel)]
    ELSE /\ thread_rx' = Append(thread_rx, thread_message(lib_call(op), args[i], t))
         /\ reply' = [reply EXCEPT ![t] = new_channel]

\* a public call begins: register, unregister, register_all or unregister_all;
\* an empty slice returns Ok(()) at once
StartCall(t) ==
    /\ call[t].pc = "idle"
    /\ newret = OkResult
    /\ wpc # "crashed"
    /\ ~dropped
    /\ \E op \in {"register", "unregister", "register_all", "unregister_all"},
          args \in Batches \cup {<<h>> : h \in Pool} :
        /\ op \in {"register", "unregister"} => Len(args) = 1
        /\ op \in {"register_all", "unregister_all"} => args \in Batches
        /\ IF Len(args) = 0
           THEN UNCHANGED <<call, reply, thread_rx>>
           ELSE /\ call' = [call EXCEPT ![t] =
                     [pc |-> "recv", op |-> op, args |-> args, i |-> 1,
                      pre |-> IF op = "unregister_all" THEN DOMAIN hotkeys ELSE {}]]
                /\ SendRequest(t, op, args, 1)
    /\ UNCHANGED <<parseVars, restVars, sinkVars, hotkeys, wpc, wsend, grabs, foreign, xqueue,
                   keyDown, phase, run, dropped, npress>>

\* rx.recv() returns: a reply, or an error once the Sender is gone, and the Receiver
\* is dropped. The `?` of the public call ends it at an Err; after an Ok the loop goes
\* on to the next element
CallerRecv(t) ==
    /\ call[t].pc = "recv"
    /\ wpc # "crashed"
    /\ Len(reply[t].buf) > 0 \/ ~reply[t].tx
    /\ IF recv_result(reply[t]).kind = "Err" \/ call[t].i = Len(call[t].args)
       THEN /\ call' = [call EXCEPT ![t] = Idle]
            /\ reply' = [reply EXCEPT ![t] = NoChannel]
            /\ thread_rx' = thread_rx
       ELSE /\ call' = [call EXCEPT ![t].i = @ + 1]
            /\ SendRequest(t, call[t].op, call[t].args, call[t].i + 1)
    /\ wsend' = IF wsend.t = t THEN [wsend EXCEPT !.live = FALSE] ELSE wsend
    /\ UNCHANGED <<parseVars, restVars, sinkVars, hotkeys, wpc, grabs, foreign, xqueue,
                   keyDown, phase, run, dropped, npress>>

\* a drop that sends nothing to the worker
DropManager_sends_nothing ==
    /\ ~dropped
    /\ newret = OkResult
    /\ wpc # "crashed"
    /\ \A t \in Threads : call[t].pc = "idle"
    /\ dropped' = TRUE
    /\ UNCHANGED <<parseVars, restVars, sinkVars, hotkeys, wpc, wsend, grabs, foreign, xqueue,
                   keyDown, thread_rx, reply, call, phase, run, npress>>

\* impl Drop: thread_tx.send(DropThread), once no call borrows the manager
DropManager ==
    /\ ~dropped
    /\ newret = OkResult
    /\ wpc # "crashed"
    /\ \A t \in Threads : call[t].pc = "idle"
    /\ dropped' = TRUE
    /\ thread_rx' = IF WorkerGone THEN thread_rx
                    ELSE Append(thread_rx, [type |-> "DropThread"])
    /\ UNCHANGED <<parseVars, restVars, sinkVars, hotkeys, wpc, wsend, grabs, foreign, xqueue,
                   keyDown, reply, call, phase, run, npress>>

(***************************************************************************)
(* The worker thread.  One pass of its loop looks at the X connection,     *)
(* then at the request channel, then sleeps.  WorkerEvents is the first     *)
(* half, taken together with a try_recv that finds the channel empty;       *)
(* WorkerRequests is a try_recv that finds a request.                       *)
(***************************************************************************)
\* if XPending > 0: XNextEvent, and the translation of a KeyPress or KeyRelease
WorkerEvents ==
    /\ wpc = "events"
    /\ wpc' = IF Len(thread_rx) = 0 THEN "events" ELSE "requests"
    /\ IF Len(xqueue) = 0
       THEN UNCHANGED <<sinkVars, hotkeys, xqueue, run>>
       ELSE
         LET ev == Head(xqueue)
             c  == <<event_modifiers(ev.state), ev.keycode>>
         IN  /\ xqueue' = Tail(xqueue)
             /\ IF ev.type \in {KeyPress, KeyRelease} /\ c \in DOMAIN hotkeys
                THEN
                  LET tr   == translate(ev.type, hotkeys[c].repeating)
                      sink == GlobalHotKeyEvent_send([id |-> hotkeys[c].id])
                  IN  /\ hotkeys' = [hotkeys EXCEPT ![c].repeating = tr.repeating]
                      /\ IF tr.send
                         THEN /\ handler' = sink.handler
                              /\ channel' = sink.channel
                              /\ handled' = sink.handled
                         ELSE UNCHANGED sinkVars
                      /\ run' = IF c \notin Tracked THEN run
                                ELSE [run EXCEPT ![c] = NextRun(@, ev.type, tr.send,
                                                                hotkeys[c].repeating)]
                ELSE UNCHANGED <<sinkVars, hotkeys, run>>
    /\ UNCHANGED <<parseVars, restVars, wsend, grabs, foreign, keyDown, thread_rx, reply, call,
                   phase, dropped, npress>>

\* if let Ok(msg) = thread_rx.try_recv(): one request, up to its first reply
WorkerRequests ==
    /\ wpc = "requests"
    /\ Len(thread_rx) > 0
    /\ LET msg == Head(thread_rx)
       IN  /\ thread_rx' = Tail(thread_rx)
           /\ IF msg.type = "DropThread"
              THEN /\ wpc' = "closed"
                   /\ grabs' = {}
                   /\ xqueue' = <<>>
                   /\ hotkeys' = <<>>
                   /\ UNCHANGED <<wsend, reply, phase, run>>
              ELSE
                LET r  == IF msg.type = "RegisterHotKey"
                          THEN register_hotkey(msg.hotkey)
                          ELSE unregister_hotkey(msg.hotkey)
                    ch == IF Len(r.replies) > 0
                          THEN chan_send(reply[msg.t], r.replies[1])
                          ELSE reply[msg.t]
                    c  == NativeCombo(msg.hotkey)
                IN  /\ hotkeys' = r.hotkeys
                    /\ grabs' = r.grabs
                    /\ xqueue' = xqueue
                    /\ IF Len(r.replies) > 1
                       THEN /\ wpc' = "send"
                            /\ wsend' = [t |-> msg.t, result |-> r.replies[2], live |-> TRUE]
                            /\ reply' = [reply EXCEPT ![msg.t] = ch]
                       ELSE /\ wpc' = "events"
                            /\ wsend' = wsend
                            /\ reply' = [reply EXCEPT ![msg.t] = chan_drop_tx(ch)]
                    /\ IF Translatable(msg.hotkey) /\ c \in Tracked
                       THEN /\ phase' = [phase EXCEPT ![c] =
                                  NextPhase(@, msg.type, r.replies[1])]
                            /\ run' = IF DOMAIN r.hotkeys = DOMAIN hotkeys THEN run
                                      ELSE [run EXCEPT ![c] = NoRun]
                       ELSE UNCHANGED <<phase, run>>
    /\ UNCHANGED <<parseVars, restVars, sinkVars, foreign, keyDown, call, dropped, npress>>

\* a second tx.send of one request: the one slot still holds the first reply, so
\* the send waits until the caller has taken it; the caller then returns and drops
\* the Receiver, and the second reply is lost
WorkerSend ==
    /\ wpc = "send"
    /\ ~wsend.live
    /\ wsend' = NoSend
    /\ wpc' = "events"
    /\ UNCHANGED <<parseVars, restVars, sinkVars, hotkeys, grabs, foreign, xqueue, keyDown,
                   thread_rx, reply, call, phase, run, dropped, npress>>


(***************************************************************************)
(* The event sink used directly: set_event_handler by the application and  *)
(* send by a backend, in any order.                                        *)
(***************************************************************************)
\* the ids of the events the backends send
EventIds == {1, 2}

NoLog == [op |-> "none", arg |-> "none", n |-> 0, nset |-> 0, some |-> FALSE,
          first |-> "none"]

\* history: one more call on the sink; nset counts the set_event_handler calls up
\* to 2, some tells whether one of them passed Some(f), first is the first call made
Logged(op, arg) ==
    [op   |-> op,
     arg  |-> arg,
     n    |-> sinklog.n + 1,
     nset |-> IF op = "set" /\ sinklog.nset < 2 THEN sinklog.nset + 1 ELSE sinklog.nset,
     some |-> sinklog.some \/ (op = "set" /\ arg = "some"),
     first |-> IF sinklog.n > 0 THEN sinklog.first
               ELSE IF op = "send" THEN "send"
               ELSE IF arg = "some" THEN "set some" ELSE "set none"]

\* the application calls GlobalHotKeyEvent::set_event_handler(Some(f)) or (None)
SetEventHandler ==
    /\ sinklog.n < MaxSinkCalls
    /\ \E f \in {"some", "none"} :
        /\ handler' = set_event_handler(f)
        /\ sinklog' = Logged("set", f)
    /\ UNCHANGED <<parseVars, channel, handled, x11Vars, newret, query, macos, windows>>

\* a backend calls GlobalHotKeyEvent::send(GlobalHotKeyEvent { id })
SendEvent ==
    /\ sinklog.n < MaxSinkCalls
    /\ \E id \in EventIds :
        LET sink == GlobalHotKeyEvent_send([id |-> id])
        IN  /\ handler' = sink.handler
            /\ channel' = sink.channel
            /\ handled' = sink.handled
            /\ sinklog' = Logged("send", id)
    /\ UNCHANGED <<parseVars, x11Vars, newret, query, macos, windows>>

(***************************************************************************)
(* HotKey::matches.                                                        *)
(***************************************************************************)
\* hotkey.rs: base_mods of matches
base_mods == {"SHIFT", "CONTROL", "ALT", "META", "SUPER"}

\* a comparison with the modifiers as they were given
HotKey_matches_unmasked(self, modifiers, key) ==
    self.mods = modifiers /\ self.key = key

\* HotKey::matches: self.mods == *modifiers & base_mods && self.key == *key
HotKey_matches(self, modifiers, key) ==
    self.mods = (modifiers \cap base_mods) /\ self.key = key

\* flags of keyboard_types::Modifiers outside base_mods
OtherFlags == {"CAPS_LOCK", "NUM_LOCK", "ALT_GRAPH"}

\* the HotKey values matches is called on: every set of base modifiers, and two
\* sets HotKey::new accepts although they hold a lock flag
MatchPool ==
    {[mods |-> m, key |-> k, id |-> 1] :
        m \in SUBSET base_mods \cup {{"CAPS_LOCK"}, {"SHIFT", "NUM_LOCK"}},
        k \in NewCodes}

NoQuery == [called |-> FALSE]

\* hotkey.matches(modifiers, key)
Matches ==
    /\ ~query.called
    /\ \E self \in MatchPool, modifiers \in SUBSET (base_mods \cup OtherFlags),
          key \in NewCodes :
        query' = [called |-> TRUE, self |-> self, modifiers |-> modifiers, key |-> key,
                  result |-> HotKey_matches(self, modifiers, key)]
    /\ UNCHANGED <<parseVars, sinkVars, x11Vars, newret, sinklog, macos, windows>>

(***************************************************************************)
(* The macOS backend (src/src/platform_impl/macos/mod.rs): synchronous     *)
(* calls on the caller's thread, a table keyed by id, and the hot keys     *)
(* Carbon holds for the application.                                       *)
(***************************************************************************)
\* the HotKey values the callers pass on macOS and Windows: HK2 and HK5 differ in
\* id and in META against SUPER; IntlBackslash has no scancode on either
HK5 == [mods |-> {"SHIFT", "SUPER"}, key |-> "Backslash", id |-> 5]

NativePool == {HK1, HK2, HK3, HK5}

\* macos key_to_scancode, for the codes of the pools
key_to_scancode(code) ==
    CASE code = "KeyA"      -> <<0>>
      [] code = "KeyQ"      -> <<12>>
      [] code = "Backslash" -> <<42>>
      [] code = "Backquote" -> <<50>>
      [] code = "F12"       -> <<111>>
      [] OTHER              -> <<>>

\* macos register: the Carbon modifier bits of hotkey.mods
macos_mods(mods) ==
    (IF "SHIFT" \in mods THEN 512 ELSE 0)
    + (IF mods \cap {"SUPER", "META"} # {} THEN 256 ELSE 0)
    + (IF "ALT" \in mods THEN 2048 ELSE 0)
    + (IF "CONTROL" \in mods THEN 4096 ELSE 0)

\* Carbon RegisterEventHotKey with no option: eventHotKeyExistsErr when the
\* application already holds a hot key of that key code and modifiers
RegisterEventHotKey(scan_code, mods) ==
    IF \E r \in macos.carbon : r.scan_code = scan_code /\ r.mods = mods
    THEN "eventHotKeyExistsErr"
    ELSE "noErr"

MacInit ==
    macos = [hotkeys |-> <<>>, carbon |-> {}, nextptr |-> 1, installed |-> TRUE,
             dropped |-> FALSE, ret |-> [op |-> "new", id |-> 0, result |-> OkResult]]

\* macos GlobalHotKeyManager::register: what it returns, the table and the hot
\* keys of Carbon afterwards
macos_register(hotkey) ==
    LET mods == macos_mods(hotkey.mods)
        sc   == key_to_scancode(hotkey.key)
    IN  IF Len(sc) = 0
        THEN [result |-> Err("FailedToRegister", hotkey.key),
              hotkeys |-> macos.hotkeys, carbon |-> macos.carbon, nextptr |-> macos.nextptr]
        ELSE IF RegisterEventHotKey(sc[1], mods) # "noErr"
        THEN [result |-> Err("FailedToRegister", hotkey.key),
              hotkeys |-> macos.hotkeys, carbon |-> macos.carbon, nextptr |-> macos.nextptr]
        ELSE [result |-> OkResult,
              hotkeys |-> (hotkey.id :> [ptr |-> macos.nextptr, hotkey |-> hotkey])
                              @@ Remove(macos.hotkeys, hotkey.id),
              carbon  |-> macos.carbon \cup
                              {[ptr |-> macos.nextptr, scan_code |-> sc[1], mods |-> mods,
                                id |-> hotkey.id]},
              nextptr |-> macos.nextptr + 1]

\* an unregister that looks the entry up by key code and modifiers, not by id
macos_unregister_by_combination(hotkey, status) ==
    LET same == {i \in DOMAIN macos.hotkeys :
                    /\ macos.hotkeys[i].hotkey.key = hotkey.key
                    /\ macos_mods(macos.hotkeys[i].hotkey.mods) = macos_mods(hotkey.mods)}
    IN  IF same # {}
        THEN [result  |-> IF status # "noErr" THEN Err("FailedToUnRegister", hotkey)
                          ELSE OkResult,
              hotkeys |-> [i \in DOMAIN macos.hotkeys \ same |-> macos.hotkeys[i]],
              carbon  |-> IF status # "noErr" THEN macos.carbon
                          ELSE {r \in macos.carbon :
                                   \A i \in same : r.ptr # macos.hotkeys[i].ptr}]
        ELSE [result |-> OkResult, hotkeys |-> macos.hotkeys, carbon |-> macos.carbon]

\* macos GlobalHotKeyManager::unregister, where status is what UnregisterEventHotKey
\* returns when it is called
macos_unregister(hotkey, status) ==
    IF hotkey.id \in DOMAIN macos.hotkeys
    THEN [result  |-> IF status # "noErr" THEN Err("FailedToUnRegister", hotkey)
                      ELSE OkResult,
          hotkeys |-> Remove(macos.hotkeys, hotkey.id),
          carbon  |-> IF status # "noErr" THEN macos.carbon
                      ELSE {r \in macos.carbon : r.ptr # macos.hotkeys[hotkey.id].ptr}]
    ELSE [result |-> OkResult, hotkeys |-> macos.hotkeys, carbon |-> macos.carbon]

MacRegister ==
    /\ ~macos.dropped
    /\ macos.nextptr <= MaxRefs
    /\ \E h \in NativePool :
        LET r == macos_register(h)
        IN  macos' = [macos EXCEPT !.hotkeys = r.hotkeys, !.carbon = r.carbon,
                                   !.nextptr = r.nextptr,
                                   !.ret = [op |-> "register", id |-> h.id,
                                            result |-> r.result]]
    /\ UNCHANGED <<parseVars, sinkVars, x11Vars, newret, sinklog, query, windows>>

MacUnregister ==
    /\ ~macos.dropped
    /\ \E h \in NativePool, status \in {"noErr", "paramErr"} :
        LET r == macos_unregister(h, status)
        IN  macos' = [macos EXCEPT !.hotkeys = r.hotkeys, !.carbon = r.carbon,
                                   !.ret = [op |-> "unregister", id |-> h.id,
                                            result |-> r.result]]
    /\ UNCHANGED <<parseVars, sinkVars, x11Vars, newret, sinklog, query, windows>>

\* impl Drop: let _ = self.unregister_all(), which unregisters the entries of a
\* clone of the table in the order of the HashMap and stops at the first Err; then
\* RemoveEventHandler.  done are the entries unregistered before the first failure,
\* failed the entry whose native unregister fails, if any
MacDrop ==
    /\ ~macos.dropped
    /\ \E done \in SUBSET DOMAIN macos.hotkeys,
          failed \in SUBSET (DOMAIN macos.hotkeys) :
        /\ done \cap failed = {}
        /\ Cardinality(failed) <= 1
        /\ failed = {} => done = DOMAIN macos.hotkeys
        /\ macos' = [macos EXCEPT
              !.hotkeys = [i \in DOMAIN macos.hotkeys \ (done \cup failed) |->
                              macos.hotkeys[i]],
              !.carbon = {r \in macos.carbon :
                              \A i \in done : r.ptr # macos.hotkeys[i].ptr},
              !.installed = FALSE,
              !.dropped = TRUE,
              !.ret = [op |-> "drop", id |-> 0, result |-> OkResult]]
    /\ UNCHANGED <<parseVars, sinkVars, x11Vars, newret, sinklog, query, windows>>

\* the key of a hot key Carbon holds is pressed: hotkey_handler, while installed,
\* sends the id of the EventHotKeyID
MacHotKeyPressed ==
    /\ macos.installed
    /\ Sent < MaxPresses
    /\ \E r \in macos.carbon :
        LET sink == GlobalHotKeyEvent_send([id |-> r.id])
        IN  /\ handler' = sink.handler
            /\ channel' = sink.channel
            /\ handled' = sink.handled
    /\ UNCHANGED <<parseVars, x11Vars, restVars>>

(***************************************************************************)
(* The Windows backend (src/src/platform_impl/windows/mod.rs): synchronous *)
(* calls on the caller's thread and the hot keys user32 holds for the      *)
(* hidden window of the manager.  windows.ever is history: the ids whose    *)
(* register returned Ok.                                                   *)
(***************************************************************************)
\* windows key_to_vk, for the codes of the pools: the virtual key VkKeyScanW
\* gives for the character, by name
key_to_vk(key) ==
    CASE key = "KeyA"      -> <<"VK_A">>
      [] key = "KeyQ"      -> <<"VK_Q">>
      [] key = "Backslash" -> <<"VK_OEM_5">>
      [] key = "Backquote" -> <<"VK_OEM_3">>
      [] key = "F12"       -> <<"VK_F12">>
      [] OTHER             -> <<>>

\* windows register: the fsModifiers of hotkey.mods
windows_mods(mods) ==
    {"MOD_NOREPEAT"}
    \cup (IF "SHIFT" \in mods THEN {"MOD_SHIFT"} ELSE {})
    \cup (IF mods \cap {"SUPER", "META"} # {} THEN {"MOD_WIN"} ELSE {})
    \cup (IF "ALT" \in mods THEN {"MOD_ALT"} ELSE {})
    \cup (IF "CONTROL" \in mods THEN {"MOD_CONTROL"} ELSE {})

\* user32 RegisterHotKey: fails, returning 0, when the keystrokes of the hot key
\* are already registered
RegisterHotKey(id, mods, vk) ==
    IF \E r \in windows.user32 : r.mods = mods /\ r.vk = vk THEN 0 ELSE 1

\* user32 UnregisterHotKey: fails, returning 0, when the window has no hot key of that id
UnregisterHotKey(id) ==
    IF \E r \in windows.user32 : r.id = id THEN 1 ELSE 0

WinInit ==
    windows = [user32 |-> {}, ever |-> {}, dropped |-> FALSE,
               ret |-> [op |-> "new", id |-> 0, result |-> OkResult]]

\* windows GlobalHotKeyManager::register
windows_register(hotkey) ==
    LET mods == windows_mods(hotkey.mods)
        vk   == key_to_vk(hotkey.key)
    IN  IF Len(vk) = 0
        THEN [result |-> Err("FailedToRegister", hotkey.key), user32 |-> windows.user32]
        ELSE IF RegisterHotKey(hotkey.id, mods, vk[1]) = 0
        THEN [result |-> Err("AlreadyRegistered", hotkey), user32 |-> windows.user32]
        ELSE [result |-> OkResult,
              user32 |-> windows.user32 \cup
                             {[id |-> hotkey.id, mods |-> mods, vk |-> vk[1]]}]

\* windows GlobalHotKeyManager::unregister
windows_unregister(hotkey) ==
    IF UnregisterHotKey(hotkey.id) = 0
    THEN [result |-> Err("OsError", "last_os_error"), user32 |-> windows.user32]
    ELSE [result |-> OkResult,
          user32 |-> {r \in windows.user32 : r.id # hotkey.id}]

WinRegister ==
    /\ ~windows.dropped
    /\ \E h \in NativePool :
        LET r == windows_register(h)
        IN  windows' = [windows EXCEPT !.user32 = r.user32,
                                       !.ever = IF r.result.kind = "Ok"
                                                THEN @ \cup {h.id} ELSE @,
                                       !.ret = [op |-> "register", id |-> h.id,
                                                result |-> r.result]]
    /\ UNCHANGED <<parseVars, sinkVars, x11Vars, newret, sinklog, query, macos>>

WinUnregister ==
    /\ ~windows.dropped
    /\ \E h \in NativePool :
        LET r == windows_unregister(h)
        IN  windows' = [windows EXCEPT !.user32 = r.user32,
                                       !.ret = [op |-> "unregister", id |-> h.id,
                                                result |-> r.result]]
    /\ UNCHANGED <<parseVars, sinkVars, x11Vars, newret, sinklog, query, macos>>

\* the manager goes out of scope: the type has no Drop, its one field is an isize,
\* so nothing is called; the window and its hot keys stay
WinDrop ==
    /\ ~windows.dropped
    /\ windows' = [windows EXCEPT !.dropped = TRUE,
                                  !.ret = [op |-> "drop", id |-> 0, result |-> OkResult]]
    /\ UNCHANGED <<parseVars, sinkVars, x11Vars, newret, sinklog, query, macos>>

\* the keystrokes of a hot key of the window are pressed: WM_HOTKEY reaches
\* global_hotkey_subclass_proc, which sends the id in wparam
WinHotKey ==
    /\ Sent < MaxPresses
    /\ \E r \in windows.user32 :
        LET sink == GlobalHotKeyEvent_send([id |-> r.id])
        IN  /\ handler' = sink.handler
            /\ channel' = sink.channel
            /\ handled' = sink.handled
    /\ UNCHANGED <<parseVars, x11Vars, restVars>>

(***************************************************************************)
(* x11 GlobalHotKeyManager::new and the start of the worker thread.        *)
(***************************************************************************)
NotCalled == [kind |-> "NotCalled"]

\* before new is called: no thread, no handle
X11Start ==
    /\ X11Fresh
    /\ wpc = "unspawned"
    /\ newret = NotCalled

\* x11 GlobalHotKeyManager::new: the channel, thread::spawn, Ok(Self { thread_tx });
\* the function has no other return
x11_new == OkResult

ManagerNew ==
    /\ newret = NotCalled
    /\ wpc' = "spawned"
    /\ newret' = x11_new
    /\ UNCHANGED <<parseVars, sinkVars, hotkeys, wsend, grabs, foreign, xqueue, keyDown,
                   thread_rx, reply, call, phase, run, dropped, npress,
                   sinklog, query, macos, windows>>

\* the worker begins: Xlib::open().unwrap() panics when the library cannot be
\* loaded, which ends the thread and drops thread_rx with the requests in it and
\* their Senders; XOpenDisplay returns a null display when no server answers,
\* XDefaultRootWindow reads through it and the process is killed; otherwise the
\* worker enters its loop
WorkerOpen ==
    /\ wpc = "spawned"
    /\ \E outcome \in {"open", "nolib", "nodisplay"} :
        CASE outcome = "open" ->
                /\ wpc' = "events"
                /\ UNCHANGED <<thread_rx, reply>>
          [] outcome = "nolib" ->
                /\ wpc' = "panicked"
                /\ thread_rx' = <<>>
                /\ reply' = [t \in Threads |->
                                IF \E i \in 1..Len(thread_rx) :
                                       thread_rx[i].type # "DropThread" /\ thread_rx[i].t = t
                                THEN chan_drop_tx(reply[t]) ELSE reply[t]]
          [] outcome = "nodisplay" ->
                /\ wpc' = "crashed"
                /\ UNCHANGED <<thread_rx, reply>>
    /\ UNCHANGED <<parseVars, sinkVars, hotkeys, wsend, grabs, foreign, xqueue, keyDown,
                   call, phase, run, dropped, npress, newret,
                   sinklog, query, macos, windows>>

(***************************************************************************)
(* A second key on the keyboard.                                           *)
(***************************************************************************)
\* the A key (keycode 38) goes down with no modifier held, while this connection
\* holds a passive grab of it
PressOtherKey ==
    /\ ~keyDown.down
    /\ wpc # "closed"
    /\ npress < MaxPresses
    /\ Len(xqueue) < MaxPending
    /\ \E sk \in {<<0, 38>>} \cap grabs :
        /\ keyDown' = [down |-> TRUE, keycode |-> sk[2], state |-> sk[1]]
        /\ xqueue' = Append(xqueue, [type |-> KeyPress, keycode |-> sk[2], state |-> sk[1]])
    /\ npress' = npress + 1
    /\ UNCHANGED <<parseVars, restVars, sinkVars, hotkeys, wpc, wsend, grabs, foreign,
                   thread_rx, reply, call, phase, run, dropped>>

(***************************************************************************)
(* Two threads that call one manager.                                      *)
(***************************************************************************)
TwoThreads == {"t1", "t2"}

\* a register or an unregister of HK1 or of HK2, called by thread t
StartSingleCall(t) ==
    /\ StartCall(t)
    /\ call'[t].op \in {"register", "unregister"}
    /\ call'[t].args \in {<<HK1>>, <<HK2>>}


\* what the specifications that do not use them hold fixed
RestInit ==
    /\ sinklog = NoLog
    /\ query = NoQuery
    /\ MacInit
    /\ WinInit

\* the crate built for Linux, where platform_impl is x11
Init == target_os = "linux" /\ ParseInit /\ SinkInit /\ X11Init /\ RestInit

\* the parser and the constructors, on any target
InitAnyTarget ==
    /\ target_os \in {"linux", "macos", "windows"}
    /\ ParseInit /\ SinkInit /\ X11Init /\ RestInit

Next ==
    \/ PressKey
    \/ RepeatKey
    \/ ReleaseKey
    \/ ForeignGrab
    \/ ForeignUngrab
    \/ \E t \in Threads : StartCall(t)
    \/ \E t \in Threads : CallerRecv(t)
    \/ DropManager
    \/ WorkerEvents
    \/ WorkerRequests
    \/ WorkerSend

Spec == Init /\ [][Next]_vars

ParseNext ==
    \/ ParseWords
    \/ ParseRenderedKey
    \/ ParseRenderedMods

SpecParse == InitAnyTarget /\ [][ParseNext]_vars

IdentityNext ==
    \/ NewHotKey
    \/ ParseKept

SpecIdentity == InitAnyTarget /\ [][IdentityNext]_vars

\* the event sink, called directly
SinkNext ==
    \/ SetEventHandler
    \/ SendEvent

SpecSink == InitAnyTarget /\ [][SinkNext]_vars

\* HotKey::matches
MatchesNext == Matches

SpecMatches == InitAnyTarget /\ [][MatchesNext]_vars

\* the crate built for macOS, a manager made
InitMac == target_os = "macos" /\ ParseInit /\ SinkInit /\ X11Init /\ RestInit

MacNext ==
    \/ MacRegister
    \/ MacUnregister
    \/ MacDrop
    \/ MacHotKeyPressed

SpecMac == InitMac /\ [][MacNext]_vars

\* the crate built for Windows, a manager made
InitWin == target_os = "windows" /\ ParseInit /\ SinkInit /\ X11Init /\ RestInit

WinNext ==
    \/ WinRegister
    \/ WinUnregister
    \/ WinDrop
    \/ WinHotKey

SpecWin == InitWin /\ [][WinNext]_vars

\* the crate built for Linux, from before GlobalHotKeyManager::new
InitStart == target_os = "linux" /\ ParseInit /\ SinkInit /\ X11Start /\ RestInit

StartNext ==
    \/ ManagerNew
    \/ WorkerOpen
    \/ PressKey
    \/ RepeatKey
    \/ ReleaseKey
    \/ ForeignGrab
    \/ ForeignUngrab
    \/ \E t \in Threads : StartCall(t)
    \/ \E t \in Threads : CallerRecv(t)
    \/ DropManager
    \/ WorkerEvents
    \/ WorkerRequests
    \/ WorkerSend

SpecStart == InitStart /\ [][StartNext]_vars

\* the manager from before new, its callers and its worker while no key is
\* pressed: XPending is 0 at every pass of the loop
CallsNext ==
    \/ ManagerNew
    \/ WorkerOpen
    \/ ForeignGrab
    \/ ForeignUngrab
    \/ \E t \in Threads : StartCall(t)
    \/ \E t \in Threads : CallerRecv(t)
    \/ DropManager
    \/ WorkerEvents
    \/ WorkerRequests
    \/ WorkerSend

\* the threads are scheduled fairly: the worker thread goes on with its start, with
\* its loop and with a send it is blocked in once the send can return, and a
\* calling thread goes on once its recv can return
CallsFairness ==
    /\ WF_vars(WorkerOpen)
    /\ WF_vars(WorkerEvents)
    /\ WF_vars(WorkerRequests)
    /\ WF_vars(WorkerSend)
    /\ \A t \in Threads : WF_vars(CallerRecv(t))

SpecCallsFair == InitStart /\ [][CallsNext]_vars /\ CallsFairness

\* the manager, its callers and its worker, with a second key on the keyboard
FrameNext ==
    \/ Next
    \/ PressOtherKey

SpecFrame == Init /\ [][FrameNext]_vars

\* one manager called from two threads: the state new leaves, with a reply
\* channel and a call for each of the threads
InitTwo ==
    /\ target_os = "linux"
    /\ ParseInit /\ SinkInit /\ RestInit
    /\ hotkeys = <<>>
    /\ wpc = "events"
    /\ wsend = NoSend
    /\ grabs = {}
    /\ foreign = {}
    /\ xqueue = <<>>
    /\ keyDown = KeyUp
    /\ thread_rx = <<>>
    /\ reply = [t \in TwoThreads |-> NoChannel]
    /\ call = [t \in TwoThreads |-> Idle]
    /\ phase = [c \in Tracked |-> 0]
    /\ run = [c \in Tracked |-> NoRun]
    /\ dropped = FALSE
    /\ npress = 0
    /\ newret = OkResult

OrderNext ==
    \/ PressKey
    \/ RepeatKey
    \/ ReleaseKey
    \/ \E t \in TwoThreads : StartSingleCall(t)
    \/ \E t \in TwoThreads : CallerRecv(t)
    \/ WorkerEvents
    \/ WorkerRequests
    \/ WorkerSend

SpecOrder == InitTwo /\ [][OrderNext]_vars

\* one manager, the calls of single identities, its drop and its worker, with the
\* keyboard, the threads scheduled fairly
ShutdownNext ==
    \/ PressKey
    \/ RepeatKey
    \/ ReleaseKey
    \/ \E t \in Threads : StartSingleCall(t)
    \/ \E t \in Threads : CallerRecv(t)
    \/ DropManager
    \/ WorkerEvents
    \/ WorkerRequests
    \/ WorkerSend

SpecShutdownFair == Init /\ [][ShutdownNext]_vars /\ CallsFairness

\* the crate built for any one of the three targets: the backend of the target
BackendsNext ==
    \/ target_os = "linux" /\ Next
    \/ target_os = "macos" /\ MacNext
    \/ target_os = "windows" /\ WinNext

SpecBackends == InitAnyTarget /\ [][BackendsNext]_vars


(***************************************************************************)
(* Properties.  Steps of the worker and of the callers, as the properties  *)
(* name them.                                                              *)
(***************************************************************************)
\* the worker takes a request of this type for this HotKey, sent by thread t
Handles(type, h, t) ==
    /\ wpc = "requests" /\ wpc' # "requests"
    /\ Len(thread_rx) > 0
    /\ Head(thread_rx).type = type
    /\ Head(thread_rx).hotkey = h
    /\ Head(thread_rx).t = t

\* the public call of thread t returns
Returns(t) == call[t].pc = "recv" /\ call'[t].pc = "idle"

\* the worker takes this event off the X connection
XEventHandled(type, state, keycode) ==
    /\ wpc = "events"
    /\ Len(xqueue) > 0
    /\ Head(xqueue) = [type |-> type, keycode |-> keycode, state |-> state]
    /\ xqueue' = Tail(xqueue)

\* this step hands exactly this event to the sink
Emits(ev) ==
    /\ Len(channel') + Len(handled') = Sent + 1
    /\ channel' = Append(channel, ev) \/ handled' = Append(handled, ev)

\* C1: for a combination with a keysym whose grabs no other client holds, the
\* register the worker handles is answered Ok and makes the entry when no register
\* of the combination is in effect (none yet, or an unregister came last), and is
\* answered AlreadyRegistered, leaving the table alone, when one is; the public
\* register returns that answer: Ok exactly after a first register or a register
\* that follows an unregister.
C1_RegisterSequence ==
    [][\A h \in Pool, t \in Threads :
          LET c == NativeCombo(h)
          IN  (Translatable(h) /\ c \in Tracked) =>
                /\ Handles("RegisterHotKey", h, t) =>
                     /\ (phase[c] \in {0, 3} /\ Variants(c[1], c[2]) \cap foreign = {}) =>
                           /\ reply'[t].buf = <<OkResult>>
                           /\ c \in DOMAIN hotkeys'
                           /\ hotkeys'[c] = [id |-> h.id, repeating |-> FALSE]
                     /\ phase[c] \in {1, 2, 4} =>
                           /\ reply'[t].buf = <<Err("AlreadyRegistered", h)>>
                           /\ hotkeys' = hotkeys
                /\ Handles("UnRegisterHotKey", h, t) =>
                     /\ reply'[t].buf = <<OkResult>>
                     /\ c \notin DOMAIN hotkeys'
                /\ (Returns(t) /\ call[t].op = "register" /\ call[t].args = <<h>>) =>
                     /\ recv_result(reply[t]).kind = "Ok" <=> phase[c] \in {1, 4}
                     /\ phase[c] = 2 => recv_result(reply[t]) = Err("AlreadyRegistered", h)
      ]_vars

\* a register, a rejected second register, an unregister and a third register of
\* one combination have all been answered, and the caller is back
C1_Witness ==
    \E c \in Tracked :
        /\ phase[c] = 4
        /\ c \in DOMAIN hotkeys
        /\ \A t \in Threads : call[t].pc = "idle"

\* C2: for a registered combination, the presses handled since the entry was made
\* or since a release was last handled for it have sent exactly one event, however
\* many they are; and an event is only ever sent while handling a KeyPress.
C2_RepeatCollapse ==
    [][/\ \A c \in Tracked \cap DOMAIN hotkeys' :
            /\ run'[c].presses = 0 => run'[c].events = 0
            /\ run'[c].presses > 0 => run'[c].events = 1
            /\ hotkeys'[c].repeating <=> run'[c].presses > 0
       /\ Len(channel') + Len(handled') # Sent =>
            /\ wpc = "events"
            /\ Len(xqueue) > 0
            /\ Head(xqueue).type = KeyPress
            /\ \E c \in DOMAIN hotkeys :
                  /\ ~hotkeys[c].repeating
                  /\ Emits([id |-> hotkeys[c].id])
      ]_vars

\* a press and an auto-repeat were handled for one entry and one event was sent
C2_Witness ==
    \E c \in Tracked \cap DOMAIN hotkeys :
        /\ run[c].presses = 2
        /\ run[c].events = 1
        /\ Sent = 1

C4_LockInvariance ==
    [][/\ \A c \in DOMAIN hotkeys' : Variants(c[1], c[2]) \subseteq grabs'
       /\ \A c \in DOMAIN hotkeys : \A sk \in Variants(c[1], c[2]) :
            (XEventHandled(KeyPress, sk[1], sk[2]) /\ ~hotkeys[c].repeating) =>
                /\ Emits([id |-> hotkeys[c].id])
                /\ hotkeys'[c].repeating
      ]_vars

\* the only press so far came with NumLock and CapsLock on and sent the entry's event
C4_Witness ==
    \E c \in DOMAIN hotkeys :
        /\ npress = 1
        /\ keyDown.down
        /\ keyDown.keycode = c[2]
        /\ keyDown.state = BitOr(c[1], BitOr(Mod2Mask, LockMask))
        /\ hotkeys[c].repeating
        /\ channel = <<[id |-> hotkeys[c].id]>>

\* C5 as the specification states it: unregister_all sends an unregister for each
\* element, no request it sends makes a new entry, and when every element was
\* registered and it returns Ok none of them is registered any more.
C5_UnregisterAll ==
    [][\A t \in Threads :
          /\ \A i \in 1..Len(thread_rx') :
                (/\ thread_rx'[i].type # "DropThread"
                 /\ thread_rx'[i].t = t
                 /\ call'[t].op = "unregister_all") =>
                    thread_rx'[i].type = "UnRegisterHotKey"
          /\ \A h \in Pool :
                (call[t].op = "unregister_all"
                    /\ (Handles("RegisterHotKey", h, t) \/ Handles("UnRegisterHotKey", h, t))) =>
                    DOMAIN hotkeys' \subseteq DOMAIN hotkeys
          /\ (/\ Returns(t)
              /\ call[t].op = "unregister_all"
              /\ recv_result(reply[t]).kind = "Ok"
              /\ \A i \in 1..Len(call[t].args) :
                    Translatable(call[t].args[i]) /\ NativeCombo(call[t].args[i]) \in call[t].pre) =>
                 \A i \in 1..Len(call[t].args) :
                    NativeCombo(call[t].args[i]) \notin DOMAIN hotkeys'
      ]_vars

C7_NeverPanics == parsed.kind \in {"NotRun", "Ok", "Err"}

\* a token that is a modifier keyword, in any letter case
IsModifierToken(tok) == modifier_keyword(to_uppercase(tok)) # None

\* a token that is a key keyword, in any letter case
IsKeyToken(tok) == ~IsModifierToken(tok) /\ to_uppercase(tok) \in KeyKeywords

\* the tokens of a string as the parser reads them: trimmed, unless there is only one
Toks(s) ==
    LET t == split(s)
    IN  IF Len(t) = 1 THEN t ELSE [i \in 1..Len(t) |-> trim(t[i])]

\* token k is a key keyword and every token before it a modifier keyword
KeyAt(tk, k) == IsKeyToken(tk[k]) /\ \A i \in 1..(k - 1) : IsModifierToken(tk[i])

\* C8 as the specification states it: modifier keywords then one key token parse,
\* and a key token followed by any further non-empty token gives UnexpectedHotKeyFormat.
C8_KeyThenMoreRejected ==
    parsed.kind # "NotRun" =>
        LET t == split(input)
        IN  /\ (IsKeyToken(t[Len(t)]) /\ \A i \in 1..(Len(t) - 1) : IsModifierToken(t[i])) =>
                  parsed.kind = "Ok"
            /\ (\E i, j \in 1..Len(t) : i < j /\ IsKeyToken(t[i]) /\ Len(trim(t[j])) > 0) =>
                  parsed = Err("UnexpectedHotKeyFormat", input)

\* C8, amended: modifier keywords then one key token parse to those modifiers and
\* that key; and when the tokens up to the first key token are modifier keywords and
\* the token after the key is not blank, the string gives UnexpectedHotKeyFormat.
C8_KeyMustBeLast ==
    parsed.kind # "NotRun" =>
        LET tk == Toks(input)
            n  == Len(tk)
        IN  /\ KeyAt(tk, n) =>
                  /\ parsed.kind = "Ok"
                  /\ parsed.hotkey.key = parse_key_table[to_uppercase(tk[n])]
                  /\ parsed.hotkey.mods =
                        {modifier_keyword(to_uppercase(tk[i])) : i \in 1..(n - 1)}
            /\ \A k \in 1..(n - 1) :
                  (KeyAt(tk, k) /\ Len(tk[k + 1]) > 0) =>
                      parsed = Err("UnexpectedHotKeyFormat", input)

\* a modifier keyword after the key was rejected
C8_Witness ==
    /\ parsed = Err("UnexpectedHotKeyFormat", input)
    /\ Len(Toks(input)) = 3
    /\ KeyAt(Toks(input), 2)
    /\ IsModifierToken(Toks(input)[3])

\* C9: a string rendered from a set M of the four modifiers, in any order, alias and
\* letter case, followed by a key keyword K, parses to the modifiers M and the Code of K.
C9_RoundTrip ==
    rendered # NoRender =>
        /\ parsed.kind = "Ok"
        /\ parsed.hotkey.mods = rendered.mods
        /\ parsed.hotkey.key = parse_key_table[rendered.key]

\* all four modifiers, written in lower case in an order that starts with a
\* modifier other than Alt, were parsed back
C9_Witness ==
    /\ rendered.mods = FourMods
    /\ rendered.key = <<"=">>
    /\ input[1] = "s"
    /\ parsed.kind = "Ok"
    /\ parsed.hotkey.mods = FourMods

\* C10 as the specification states it: a string with an empty token gives
\* EmptyHotKeyToken, and a string without one whose only non-modifier token is no
\* key keyword gives UnrecognizedHotKeyCode naming that token.
C10_EmptyAndUnrecognized ==
    parsed.kind # "NotRun" =>
        LET t  == split(input)
            tk == Toks(input)
            others == {i \in 1..Len(tk) : ~IsModifierToken(tk[i])}
        IN  /\ (\E i \in 1..Len(t) : Len(t[i]) = 0) =>
                  parsed = Err("EmptyHotKeyToken", input)
            /\ \A i \in 1..Len(tk) :
                  (/\ \A j \in 1..Len(t) : Len(trim(t[j])) > 0
                   /\ others = {i}
                   /\ ~IsKeyToken(tk[i])) =>
                      parsed = Err("UnrecognizedHotKeyCode", tk[i])

\* C10, amended: a string of one token that is no key keyword, the empty string
\* included, gives UnrecognizedHotKeyCode naming the string; in a string of more
\* tokens, modifier keywords followed by a blank token give EmptyHotKeyToken, as do
\* modifier keywords and a key followed by a blank token, and modifier keywords
\* followed by a token that is neither blank, a modifier nor a key give
\* UnrecognizedHotKeyCode naming that token, trimmed.
C10_FirstOffenceDecides ==
    parsed.kind # "NotRun" =>
        LET tk == Toks(input)
            n  == Len(tk)
        IN  /\ (n = 1 /\ to_uppercase(input) \notin KeyKeywords) =>
                  parsed = Err("UnrecognizedHotKeyCode", input)
            /\ n > 1 =>
                  \A k \in 1..n :
                     /\ ((\A i \in 1..(k - 1) : IsModifierToken(tk[i])) /\ Len(tk[k]) = 0) =>
                           parsed = Err("EmptyHotKeyToken", input)
                     /\ (k < n /\ KeyAt(tk, k) /\ Len(tk[k + 1]) = 0) =>
                           parsed = Err("EmptyHotKeyToken", input)
                     /\ ((\A i \in 1..(k - 1) : IsModifierToken(tk[i]))
                            /\ Len(tk[k]) > 0
                            /\ ~IsModifierToken(tk[k])
                            /\ ~IsKeyToken(tk[k])) =>
                           parsed = Err("UnrecognizedHotKeyCode", tk[k])

\* the empty string was rejected as an unrecognized key
C10_Witness ==
    /\ parsed = Err("UnrecognizedHotKeyCode", <<>>)
    /\ input = <<>>
    /\ rendered = NoRender

SendStep(id) ==
    sinklog'.n = sinklog.n + 1 /\ sinklog'.op = "send" /\ sinklog'.arg = id

\* a call of set_event_handler is the step taken
SetStep == sinklog'.n = sinklog.n + 1 /\ sinklog'.op = "set"

C14_ExactlyOneSink ==
    [][\A id \in EventIds :
          SendStep(id) =>
              IF handler = "some"
              THEN handled' = Append(handled, [id |-> id]) /\ channel' = channel
              ELSE channel' = Append(channel, [id |-> id]) /\ handled' = handled
      ]_vars

\* two events of one id went to the channel, then to nothing else; and, in another
\* run, two of one id to the handler
C14_Witness ==
    \/ /\ channel = <<[id |-> 1], [id |-> 1]>>
       /\ handled = <<>>
       /\ sinklog.op = "send"
    \/ /\ handled = <<[id |-> 1], [id |-> 1]>>
       /\ channel = <<>>
       /\ sinklog.op = "send"

\* Carbon holds, for the application, a hot key of the native combination of h
MacHolds(h) ==
    /\ Len(key_to_scancode(h.key)) = 1
    /\ \E r \in macos.carbon :
          r.scan_code = key_to_scancode(h.key)[1] /\ r.mods = macos_mods(h.mods)

\* C15, on macOS: a register of a native combination that is already registered
\* returns AlreadyRegistered.
C15_DuplicateIsAlreadyRegistered ==
    [][\A h \in NativePool :
          (/\ MacHolds(h)
           /\ macos' # macos
           /\ macos'.ret.op = "register"
           /\ macos'.ret.id = h.id) =>
              macos'.ret.result = Err("AlreadyRegistered", h)
      ]_vars

\* C16, on Windows: an unregister of a HotKey whose id was never registered on the
\* manager returns Ok and leaves the hot keys of the manager as they are.
C16_UnregisterUnknownIsOk ==
    [][\A h \in NativePool :
          (/\ h.id \notin windows.ever
           /\ windows' # windows
           /\ windows'.ret.op = "unregister"
           /\ windows'.ret.id = h.id) =>
              /\ windows'.ret.result = OkResult
              /\ windows'.user32 = windows.user32
      ]_vars

\* C17, on Windows: once the manager is dropped, no hot key it registered remains.
C17_TeardownUnregistersAll ==
    windows.dropped => windows.user32 = {}

\* C18: when the worker cannot load the library or open the display, new has
\* returned an OS error (and so no handle).
C18_NewFailsAtomically ==
    wpc \in {"panicked", "crashed"} => newret = Err("OsError", "last_os_error")

\* what rx.recv() of thread t yields when it returns: the reply in the slot, or
\* nothing when the Sender went away without one
Answer(t) == IF Len(reply[t].buf) > 0 THEN reply[t].buf[1] ELSE OkResult

\* the requests of thread t the worker has not taken yet
Pending(rx, t) ==
    SelectSeq(rx, LAMBDA msg : msg.type # "DropThread" /\ msg.t = t)

\* the HotKey has an entry in the table of the worker
InTable(h, table) == Translatable(h) /\ NativeCombo(h) \in DOMAIN table

\* C19: register_all sends a register for the first element; when the answer to
\* element i is an error it returns that error with nothing further sent, every
\* element before i still in the table; when the answer is Ok it goes on to element
\* i + 1, or, after the last element, returns Ok with every element in the table.
C19_RegisterAllStopsAtFirstFailure ==
    [][\A t \in Threads :
          /\ (call[t].pc = "idle" /\ call'[t].op = "register_all") =>
                /\ call'[t].i = 1
                /\ Pending(thread_rx', t) =
                       <<[type |-> "RegisterHotKey", hotkey |-> call'[t].args[1], t |-> t]>>
          /\ (call[t].op = "register_all" /\ call'[t] # call[t]) =>
                LET a   == call[t].args
                    i   == call[t].i
                IN  IF Answer(t).kind = "Err"
                    THEN /\ Returns(t)
                         /\ recv_result(reply[t]) = Answer(t)
                         /\ Pending(thread_rx', t) = <<>>
                         /\ \A j \in 1..(i - 1) : InTable(a[j], hotkeys')
                    ELSE IF i = Len(a)
                    THEN /\ Returns(t)
                         /\ recv_result(reply[t]) = OkResult
                         /\ Pending(thread_rx', t) = <<>>
                         /\ \A j \in 1..i : InTable(a[j], hotkeys')
                    ELSE /\ call'[t] = [call[t] EXCEPT !.i = i + 1]
                         /\ Pending(thread_rx', t) =
                                <<[type |-> "RegisterHotKey", hotkey |-> a[i + 1], t |-> t]>>
      ]_vars

\* register_all(&[HK1, HK4]): HK1 was registered, the register of HK4, a key with
\* no keysym, was answered FailedToRegister, and the caller is about to return it
C19_Witness ==
    \E t \in Threads :
        /\ call[t].op = "register_all"
        /\ call[t].args = <<HK1, HK4>>
        /\ call[t].i = 2
        /\ reply[t].buf = <<Err("FailedToRegister", "Backquote")>>
        /\ InTable(HK1, hotkeys)

\* C20: matches returns true exactly when the key is the key of the HotKey and the
\* modifiers of the HotKey are the SHIFT, CONTROL, ALT, META and SUPER flags of the
\* argument; adding or removing any other flag of the argument gives the same result.
C20_MatchesBaseModifiers ==
    query.called =>
        /\ query.result =
              (/\ query.key = query.self.key
               /\ query.self.mods =
                     {f \in query.modifiers :
                         f \in {"SHIFT", "CONTROL", "ALT", "META", "SUPER"}})
        /\ \A extra \in SUBSET OtherFlags :
              /\ HotKey_matches(query.self, query.modifiers \cup extra, query.key)
                    = query.result
              /\ HotKey_matches(query.self, query.modifiers \ extra, query.key)
                    = query.result

\* SHIFT+KeyQ matched an argument of SHIFT with CapsLock and NumLock on
C20_Witness ==
    /\ query.called
    /\ query.result
    /\ query.self.mods = {"SHIFT"}
    /\ query.modifiers = {"SHIFT", "CAPS_LOCK", "NUM_LOCK"}

\* the flag the keyword table of the parser gives an upper-cased keyword on a target
FamilyFlag(u, os) ==
    CASE u \in {<<"O","P","T","I","O","N">>, <<"A","L","T">>} -> "ALT"
      [] u \in {<<"C","O","N","T","R","O","L">>, <<"C","T","R","L">>} -> "CONTROL"
      [] u \in {<<"C","O","M","M","A","N","D">>, <<"C","M","D">>,
                <<"S","U","P","E","R">>} -> "META"
      [] u = <<"S","H","I","F","T">> -> "SHIFT"
      [] u \in KwCmdOrCtrl -> IF os = "macos" THEN "META" ELSE "CONTROL"
      [] OTHER -> None

\* C21: in a parsed string of modifier keywords and a key, in any letter case and
\* with any alias, the modifiers of the result are the flags of the keywords'
\* families: ALT for OPTION/ALT, CONTROL for CONTROL/CTRL, META for
\* COMMAND/CMD/SUPER, SHIFT for SHIFT, and for the COMMANDORCONTROL family META on
\* macOS and CONTROL elsewhere; the string in upper case parses to the same
\* modifiers and key.
C21_ModifierAliases ==
    (rendered # NoRender /\ parsed.kind # "NotRun") =>
        LET tk == Toks(input)
            n  == Len(tk)
            up == parse_hotkey(to_uppercase(input))
        IN  /\ \A i \in 1..(n - 1) : FamilyFlag(to_uppercase(tk[i]), target_os) # None
            /\ parsed.kind = "Ok"
            /\ parsed.hotkey.mods =
                  {FamilyFlag(to_uppercase(tk[i]), target_os) : i \in 1..(n - 1)}
            /\ parsed.hotkey.mods = rendered.mods
            /\ up.kind = "Ok"
            /\ up.hotkey.mods = parsed.hotkey.mods
            /\ up.hotkey.key = parsed.hotkey.key

\* on macOS, "cmdorctrl" in lower case before a key was parsed to META
C21_Witness ==
    /\ target_os = "macos"
    /\ rendered.mods = {"META"}
    /\ Len(input) > 9
    /\ SubSeq(input, 1, 9) = <<"c","m","d","o","r","c","t","r","l">>
    /\ parsed.kind = "Ok"
    /\ parsed.hotkey.mods = {"META"}

\* C22: a string of one token parses exactly when the token is a key keyword, in
\* any letter case, to that key with no modifiers; a lone modifier keyword is
\* rejected with UnrecognizedHotKeyCode.
C22_SingleTokenIsKey ==
    (parsed.kind # "NotRun" /\ Len(split(input)) = 1) =>
        /\ parsed.kind = "Ok" <=> to_uppercase(input) \in KeyKeywords
        /\ parsed.kind = "Ok" =>
              /\ parsed.hotkey.mods = {}
              /\ parsed.hotkey.key = parse_key_table[to_uppercase(input)]
        /\ IsModifierToken(input) => parsed = Err("UnrecognizedHotKeyCode", input)

\* "shift" alone was rejected as an unrecognized key
C22_Witness ==
    /\ input = <<"s","h","i","f","t">>
    /\ parsed = Err("UnrecognizedHotKeyCode", <<"s","h","i","f","t">>)

\* the worker takes a register or unregister request sent by thread t
HandlesRequest(t) ==
    \E h \in Pool : Handles("RegisterHotKey", h, t) \/ Handles("UnRegisterHotKey", h, t)

\* C23: handling a register or unregister request, the worker sends one reply on
\* the reply channel of the request, not none and not two: the reply is in the
\* channel when the worker is done with the request, and no second send follows.
C23_ExactlyOneReply ==
    [][\A t \in Threads :
          HandlesRequest(t) =>
              /\ Len(reply'[t].buf) = 1
              /\ wpc' # "send"
      ]_vars

\* the place of the first variant of a combination another client holds, in the
\* order of IGNORED_MODS
FirstConflict(c) ==
    CHOOSE i \in 1..Len(IGNORED_MODS) :
        /\ <<BitOr(c[1], IGNORED_MODS[i]), c[2]>> \in foreign
        /\ \A j \in 1..(i - 1) : <<BitOr(c[1], IGNORED_MODS[j]), c[2]>> \notin foreign

\* C24: when the worker handles a register of a combination one of whose four
\* variants another client has grabbed, it stops grabbing at that variant, none of
\* the four variants is grabbed afterwards, the one reply is AlreadyRegistered and
\* the table is as it was.
C24_RegisterRollback ==
    [][\A h \in Pool, t \in Threads :
          LET c == NativeCombo(h)
          IN  (/\ Translatable(h)
               /\ Variants(c[1], c[2]) \cap foreign # {}
               /\ Handles("RegisterHotKey", h, t)) =>
                  /\ grab_loop(c[1], c[2], 1, grabs).attempts = FirstConflict(c)
                  /\ Variants(c[1], c[2]) \cap grabs' = {}
                  /\ grabs' \subseteq grabs
                  /\ reply'[t].buf = <<Err("AlreadyRegistered", h)>>
                  /\ wpc' # "send"
                  /\ hotkeys' = hotkeys
      ]_vars

\* a register of Shift+Super+backslash, never registered before, met the grab of
\* another client at its second variant and was answered AlreadyRegistered
C24_Witness ==
    \E t \in Threads :
        /\ reply[t].buf = <<Err("AlreadyRegistered", HK2)>>
        /\ phase[NativeCombo(HK2)] = 0
        /\ foreign # {}
        /\ Variants(NativeCombo(HK2)[1], NativeCombo(HK2)[2]) \cap grabs = {}
        /\ NativeCombo(HK2) \notin DOMAIN hotkeys

C26_TableGrabConsistency ==
    wpc \notin {"closed", "panicked", "crashed"} =>
        /\ \A c \in Tracked : c \in DOMAIN hotkeys <=> Registered(phase[c])
        /\ DOMAIN hotkeys \subseteq Combos
        /\ \A h1, h2 \in Pool :
              (InTable(h1, hotkeys) /\ InTable(h2, hotkeys)
                  /\ NativeCombo(h1) = NativeCombo(h2)) =>
                  hotkeys[NativeCombo(h1)] = hotkeys[NativeCombo(h2)]
        /\ \A c \in DOMAIN hotkeys :
              /\ Variants(c[1], c[2]) \subseteq grabs
              /\ Variants(c[1], c[2]) \cap foreign = {}

\* the combination was registered, a second register of it was rejected, and the
\* entry of the first register is in the table with its four grabs
C26_Witness ==
    \E c \in Tracked :
        /\ phase[c] = 2
        /\ wpc = "events"
        /\ c \in DOMAIN hotkeys
        /\ hotkeys[c].id = HK2.id
        /\ Cardinality(grabs) = 4

\* C27: with the worker and the callers scheduled fairly, a public call that is
\* waiting for a reply returns, unless the process is killed first, and a worker
\* blocked in a second send for one request gets out of it.
C27_CallsReturn ==
    /\ \A t \in Threads :
          (call[t].pc = "recv") ~> (call[t].pc = "idle" \/ wpc = "crashed")
    /\ (wpc = "send") ~> (wpc # "send")

\* the caller has taken the first of two replies and returned; the worker, which
\* was blocked in the second send, is about to go on
C27_Witness ==
    /\ wpc = "send"
    /\ ~wsend.live
    /\ call[wsend.t].pc = "idle"

\* C28: handling a register of a HotKey whose key has no keysym, the worker
\* answers FailedToRegister once, grabs nothing, leaves the table as it is, and
\* goes back to its loop with the requests behind this one still queued.
C28_UntranslatableRegister ==
    [][\A h \in Pool, t \in Threads :
          (~Translatable(h) /\ Handles("RegisterHotKey", h, t)) =>
              /\ reply'[t].buf = <<Err("FailedToRegister", h.key)>>
              /\ ~reply'[t].tx
              /\ grabs' = grabs
              /\ hotkeys' = hotkeys
              /\ wpc' = "events"
              /\ thread_rx' = Tail(thread_rx)
      ]_vars

\* a register of Control+Backquote was answered FailedToRegister while the entry
\* and the grabs of an earlier register of KeyA are as they were
C28_Witness ==
    \E t \in Threads :
        /\ call[t].op = "register"
        /\ call[t].args = <<HK4>>
        /\ reply[t].buf = <<Err("FailedToRegister", "Backquote")>>
        /\ wpc = "events"
        /\ DOMAIN hotkeys = {NativeCombo(HK1)}
        /\ Cardinality(grabs) = 4

\* C29: handling a register or unregister of one native combination, whatever
\* the answer, the worker leaves the entry and the grabs of every other
\* combination as they are, and a HotKey without a native combination changes
\* nothing at all; the worker stays in its loop, and while the AlreadyRegistered
\* answer to a register waits for its caller, a press of another registered
\* combination still sends the event of its entry.
C29_Frame ==
    [][\A h \in Pool, t \in Threads :
          /\ (Handles("RegisterHotKey", h, t) \/ Handles("UnRegisterHotKey", h, t)) =>
                LET own == IF Translatable(h) THEN {NativeCombo(h)} ELSE {}
                    ownGrabs == UNION {Variants(c[1], c[2]) : c \in own}
                IN  /\ DOMAIN hotkeys' \ own = DOMAIN hotkeys \ own
                    /\ \A c \in DOMAIN hotkeys \ own : hotkeys'[c] = hotkeys[c]
                    /\ grabs' \ ownGrabs = grabs \ ownGrabs
                    /\ wpc' \in {"events", "send"}
          /\ \A c \in DOMAIN hotkeys :
                (/\ reply[t].buf = <<Err("AlreadyRegistered", h)>>
                 /\ Translatable(h)
                 /\ c # NativeCombo(h)
                 /\ XEventHandled(KeyPress, c[1], c[2])
                 /\ ~hotkeys[c].repeating) =>
                    Emits([id |-> hotkeys[c].id])
      ]_vars

\* KeyA is registered and Shift+Super+backslash is not; a register of the latter
\* was refused because of another client's grab and its AlreadyRegistered answer
\* waits for the caller; a press of KeyA is the next thing the worker handles
C29_Witness ==
    \E t \in Threads :
        /\ reply[t].buf = <<Err("AlreadyRegistered", HK2)>>
        /\ DOMAIN hotkeys = {NativeCombo(HK1)}
        /\ hotkeys[NativeCombo(HK1)] = [id |-> HK1.id, repeating |-> FALSE]
        /\ wpc = "events"
        /\ Len(xqueue) > 0
        /\ Head(xqueue) = [type |-> KeyPress, keycode |-> 38, state |-> 0]
        /\ Sent = 0

InLoop == wpc \in {"events", "requests", "send"}

\* C31: the worker leaves its loop only at the step that takes the DropThread
\* request the drop of the manager sent, and that step closes the display; by then
\* every request sent before it has been taken and every call has returned; once
\* the manager is dropped the worker, scheduled fairly, reaches that step; and a
\* worker that has closed stays closed and hands no event to the sink.
C31_Shutdown ==
    /\ [][(InLoop /\ ~InLoop') =>
            /\ wpc = "requests" /\ wpc' = "closed"
            /\ dropped
            /\ Head(thread_rx) = [type |-> "DropThread"]
            /\ thread_rx' = <<>>
            /\ \A t \in Threads : call[t].pc = "idle" /\ reply[t] = NoChannel
            /\ grabs' = {}]_vars
    /\ [][wpc = "closed" =>
            /\ wpc' = "closed"
            /\ channel' = channel /\ handled' = handled]_vars
    /\ (dropped /\ InLoop) ~> (wpc = "closed")

\* the manager was dropped and the worker has closed the display while the key of
\* a registered combination, whose press it had reported, was still held down
C31_Witness ==
    /\ dropped /\ wpc = "closed"
    /\ keyDown.down
    /\ Sent = 1
    /\ phase[NativeCombo(HK2)] = 1

\* the registrations: the combinations of the table with their ids, and the grabs
Registrations == <<[c \in DOMAIN hotkeys |-> hotkeys[c].id], grabs>>

\* C32: while a call waits on a reply channel that holds no answer, no step changes
\* the registrations, the step of the worker that takes the request and drops the
\* Sender unanswered included; a request sent once the worker has ended is not
\* delivered and its Sender is dropped; and the caller whose recv then fails goes
\* on as after Ok(()): register and unregister return Ok(()).
C32_UnansweredIsSuccess ==
    [][\A t \in Threads :
          /\ (call[t].pc = "recv" /\ reply[t].buf = <<>> /\ reply'[t].buf = <<>>) =>
                Registrations' = Registrations
          /\ (call[t].pc = "idle" /\ call'[t].pc = "recv" /\ WorkerGone) =>
                /\ thread_rx' = thread_rx
                /\ reply'[t] = [buf |-> <<>>, tx |-> FALSE, rx |-> TRUE]
                /\ Registrations' = Registrations
          /\ (call[t].pc = "recv" /\ call'[t] # call[t] /\ reply[t].buf = <<>>) =>
                /\ ~reply[t].tx
                /\ recv_result(reply[t]) = OkResult
                /\ call[t].op \in {"register", "unregister"} => Returns(t)
      ]_vars

\* with HK1 registered, the worker has taken the unregister of HK4, a key with no
\* keysym, and dropped the Sender without an answer: the caller is about to return
C32_Witness ==
    \E t \in Threads :
        /\ wpc = "events"
        /\ call[t].pc = "recv" /\ call[t].op = "unregister" /\ call[t].args = <<HK4>>
        /\ reply[t] = [buf |-> <<>>, tx |-> FALSE, rx |-> TRUE]
        /\ InTable(HK1, hotkeys)

\* the tokens of a string, each trimmed
Trimmed(s) == [i \in 1..Len(split(s)) |-> trim(split(s)[i])]

\* the first of the three checks that token k fails, the tokens before it having
\* passed: empty, then a key already seen, then neither a modifier nor a key
Offence(tk, k) ==
    IF Len(tk[k]) = 0 THEN "EmptyHotKeyToken"
    ELSE IF \E i \in 1..(k - 1) : IsKeyToken(tk[i]) THEN "UnexpectedHotKeyFormat"
    ELSE IF ~IsModifierToken(tk[k]) /\ ~IsKeyToken(tk[k]) THEN "UnrecognizedHotKeyCode"
    ELSE "none"

\* the error the first offending token decides, or NotRun when no token offends
FirstOffence(s, tk) ==
    LET bad == {k \in 1..Len(tk) : Offence(tk, k) # "none"}
    IN  IF bad = {} THEN NotRun
        ELSE LET k == CHOOSE x \in bad : \A y \in bad : x <= y
             IN  Err(Offence(tk, k),
                     IF Offence(tk, k) = "UnrecognizedHotKeyCode" THEN tk[k] ELSE s)

\* C33 as the specification states it: in every string the tokens are taken from
\* the left, each checked for being empty, then for following a key, then for
\* being neither modifier nor key, and the first check to fail gives the error.
C33_ChecksInOrder ==
    (parsed.kind # "NotRun" /\ FirstOffence(input, Trimmed(input)) # NotRun) =>
        parsed = FirstOffence(input, Trimmed(input))

\* C33, amended: in a string of two or more tokens the tokens are taken from the
\* left, trimmed, each checked for being empty, then for following a key, then for
\* being neither modifier nor key, and the first check to fail gives the error; a
\* string of one token goes through none of the three checks: it is rejected, as
\* an unrecognized key naming the string, exactly when it is no key name as written.
C33_LoopChecksInOrder ==
    parsed.kind # "NotRun" =>
        LET n == Len(split(input))
        IN  /\ (n > 1 /\ FirstOffence(input, Trimmed(input)) # NotRun) =>
                  parsed = FirstOffence(input, Trimmed(input))
            /\ (n > 1 /\ FirstOffence(input, Trimmed(input)) = NotRun) =>
                  parsed.kind \in {"Ok", "Panic"}
            /\ n = 1 =>
                  IF to_uppercase(input) \in KeyKeywords
                  THEN parsed.kind = "Ok"
                  ELSE parsed = Err("UnrecognizedHotKeyCode", input)

\* a modifier, a key and a blank token: the blank token, which is both empty and
\* after the key, was rejected as empty
C33_Witness ==
    /\ Len(Trimmed(input)) = 3
    /\ KeyAt(Trimmed(input), 2)
    /\ Len(Trimmed(input)[3]) = 0
    /\ parsed = Err("EmptyHotKeyToken", input)

\* the combination of the event at the head of the X connection
HeadCombo == <<event_modifiers(Head(xqueue).state), Head(xqueue).keycode>>

\* C34: the worker hands an event to the sink only when it takes a KeyPress whose
\* combination has a table entry, and the id of the event is the id of that entry;
\* an event taken for a combination without an entry changes neither sink; an
\* entry gets its id from the HotKey of the register that makes it, and keeps it
\* for as long as it is in the table, whatever registers are refused meanwhile.
C34_EmittedIdIsCreators ==
    [][/\ \A id \in {h.id : h \in Pool} :
             Emits([id |-> id]) =>
                 /\ wpc = "events" /\ Len(xqueue) > 0
                 /\ Head(xqueue).type = KeyPress
                 /\ HeadCombo \in DOMAIN hotkeys
                 /\ hotkeys[HeadCombo].id = id
       /\ (wpc = "events" /\ Len(xqueue) > 0 /\ xqueue' = Tail(xqueue)
              /\ HeadCombo \notin DOMAIN hotkeys) =>
             channel' = channel /\ handled' = handled
       /\ \A c \in DOMAIN hotkeys' :
             IF c \in DOMAIN hotkeys
             THEN hotkeys'[c].id = hotkeys[c].id
             ELSE \E h \in Pool, t \in Threads :
                     /\ Handles("RegisterHotKey", h, t)
                     /\ Translatable(h) /\ NativeCombo(h) = c
                     /\ hotkeys'[c].id = h.id
      ]_vars

\* the entry HK2 made has reported a press with the id of HK2; the register of HK3,
\* the same native combination under SUPER for META and with another id, has just
\* been refused, and the next press of the combination waits on the X connection
C34_Witness ==
    \E t \in Threads :
        /\ call[t].op = "register" /\ call[t].args = <<HK3>>
        /\ reply[t].buf = <<Err("AlreadyRegistered", HK3)>>
        /\ NativeCombo(HK2) \in DOMAIN hotkeys
        /\ hotkeys[NativeCombo(HK2)] = [id |-> HK2.id, repeating |-> FALSE]
        /\ channel = <<[id |-> HK2.id]>>
        /\ Len(xqueue) = 1 /\ Head(xqueue).type = KeyPress

C36_NoEventAfterDrop ==
    [][dropped => (channel' = channel /\ handled' = handled)]_vars

\* C37: on macOS, while the manager lives, every hot key Carbon holds for the
\* application is recorded in the table of the manager under its id, with its
\* reference; in particular the HotKey of an unregister that has just returned
\* FailedToUnRegister is still in the table.
C37_TableKeepsFailedUnregister ==
    ~macos.dropped =>
        /\ (macos.ret.op = "unregister" /\ macos.ret.result.kind = "Err") =>
              macos.ret.id \in DOMAIN macos.hotkeys
        /\ \A r \in macos.carbon :
              /\ r.id \in DOMAIN macos.hotkeys
              /\ macos.hotkeys[r.id].ptr = r.ptr

\* the public unregister of h is the step taken on macOS, on Windows
MacUnregisters(h) ==
    macos' # macos /\ macos'.ret.op = "unregister" /\ macos'.ret.id = h.id

WinUnregisters(h) ==
    windows' # windows /\ windows'.ret.op = "unregister" /\ windows'.ret.id = h.id

\* C38: each backend looks a registration up at unregister by what register filed
\* it under.  On X11 that is the native combination: an entry is filed under the
\* combination of its HotKey, and the unregister of a HotKey of that combination
\* with another id removes the entry and its grabs.  On macOS and on Windows it is
\* the id: a registration is filed under the id of its HotKey, and the unregister
\* of a HotKey with an id no registration has leaves every registration, of the
\* same keys or not, as it was.
C38_UnregisterKeyedAsRegister ==
    [][/\ target_os = "linux" =>
             \A h \in Pool, t \in Threads :
                LET c == NativeCombo(h)
                IN  /\ (/\ Handles("UnRegisterHotKey", h, t)
                        /\ Translatable(h)
                        /\ c \in DOMAIN hotkeys
                        /\ hotkeys[c].id # h.id) =>
                           /\ c \notin DOMAIN hotkeys'
                           /\ Variants(c[1], c[2]) \cap grabs' = {}
                    /\ (/\ Handles("RegisterHotKey", h, t)
                        /\ DOMAIN hotkeys' # DOMAIN hotkeys) =>
                           DOMAIN hotkeys' = DOMAIN hotkeys \cup {c}
       /\ target_os = "macos" =>
             \A h \in NativePool :
                /\ (MacUnregisters(h) /\ h.id \notin DOMAIN macos.hotkeys) =>
                      /\ macos'.hotkeys = macos.hotkeys
                      /\ macos'.carbon = macos.carbon
                /\ (macos' # macos /\ macos'.ret = [op |-> "register", id |-> h.id,
                                                    result |-> OkResult]) =>
                      /\ DOMAIN macos'.hotkeys = DOMAIN macos.hotkeys \cup {h.id}
                      /\ macos'.hotkeys[h.id].hotkey = h
       /\ target_os = "windows" =>
             \A h \in NativePool :
                /\ (WinUnregisters(h) /\ \A r \in windows.user32 : r.id # h.id) =>
                      windows'.user32 = windows.user32
                /\ (windows' # windows /\ windows'.ret = [op |-> "register", id |-> h.id,
                                                          result |-> OkResult]) =>
                      \E r \in windows'.user32 :
                          r.id = h.id /\ windows'.user32 = windows.user32 \cup {r}
      ]_vars

\* on X11 the unregister of HK3 was answered Ok and the entry of its combination,
\* whose press was reported with the id of HK2, is gone with its grabs; on macOS
\* and on Windows the registration of HK2 is in place after the unregister of HK5,
\* which names the same keys under another id
C38_WitnessX11 ==
    /\ target_os = "linux"
    /\ \E t \in Threads :
          /\ call[t].op = "unregister" /\ call[t].args = <<HK3>>
          /\ reply[t].buf = <<OkResult>>
    /\ channel = <<[id |-> HK2.id]>>
    /\ keyDown.down
    /\ NativeCombo(HK3) \notin DOMAIN hotkeys
    /\ Variants(NativeCombo(HK3)[1], NativeCombo(HK3)[2]) \cap grabs = {}

C38_WitnessMac ==
    /\ target_os = "macos"
    /\ macos.ret.op = "unregister" /\ macos.ret.id = HK5.id
    /\ DOMAIN macos.hotkeys = {HK2.id}
    /\ MacHolds(HK2)

C38_WitnessWin ==
    /\ target_os = "windows"
    /\ windows.ret.op = "unregister" /\ windows.ret.id = HK5.id
    /\ \E r \in windows.user32 : r.id = HK2.id

C38_Witness == C38_WitnessX11 \/ C38_WitnessMac \/ C38_WitnessWin
====
